---- MODULE Spec2Model ----
(***************************************************************************)
(* A model of chippy8: the CHIP-8 machine of src/machine.rs, the decoder   *)
(* of src/instructions.rs and the scheduler thread of src/main.rs.         *)
(*                                                                         *)
(* The machine is one record (the fields of struct Machine); every method  *)
(* of Machine is an operator from a machine record to a machine record.    *)
(* A Rust panic (an out-of-bounds index, an unwrap of Err) is the field    *)
(* `panic` of the record: the operator that panics returns the machine as  *)
(* it was at the panicking statement, with panic = TRUE.                   *)
(*                                                                         *)
(* The big arrays (ram, the stack, the pixel grid, the colour buffer) are   *)
(* kept as the finite map of their non-zero elements: an index outside the *)
(* map's domain holds 0 (false, for a pixel).  Every access checks the     *)
(* index against the array's length as Rust's indexing does.               *)
(***************************************************************************)
EXTENDS Integers, Sequences, FiniteSets, TLC

(***************************************************************************)
(* Program constants                                                       *)
(***************************************************************************)
DISPLAY_WIDTH == 64
DISPLAY_HEIGHT == 32
FONT_START_ADDRESS == 80
ROM_START_ADDRESS == 512
RAM_LEN == 4096
STACK_LEN == 100
NUM_REGISTERS == 16
NUM_KEYS == 16

FONT ==
 << 240, 144, 144, 144, 240,   \* 0
    32, 96, 32, 32, 112,       \* 1
    240, 16, 240, 128, 240,    \* 2
    240, 16, 240, 16, 240,     \* 3
    144, 144, 240, 16, 16,     \* 4
    240, 128, 240, 16, 240,    \* 5
    240, 128, 240, 144, 240,   \* 6
    240, 16, 32, 64, 64,       \* 7
    240, 144, 240, 144, 240,   \* 8
    240, 144, 240, 16, 240,    \* 9
    240, 144, 240, 144, 144,   \* A
    224, 144, 224, 144, 224,   \* B
    240, 128, 128, 128, 240,   \* C
    224, 144, 144, 144, 224,   \* D
    240, 128, 240, 128, 240,   \* E
    240, 128, 240, 128, 128 >> \* F

(***************************************************************************)
(* Fixed-width integer helpers                                             *)
(***************************************************************************)
\* u8 arithmetic that saturates
U8_saturating(v) == IF v > 255 THEN 255 ELSE v

U8(v) == v % 256

U16(v) == v % 65536

RECURSIVE BitOp(_, _, _, _)
\* the bitwise combination of the low `bits` bits of a and b; op is the
\* truth table of the operator as a set of bit pairs that give 1
BitOp(op, a, b, bits) ==
    IF bits = 0 THEN 0
    ELSE (IF <<a % 2, b % 2>> \in op THEN 1 ELSE 0)
         + 2 * BitOp(op, a \div 2, b \div 2, bits - 1)

BitOr(a, b) == BitOp({<<0, 1>>, <<1, 0>>, <<1, 1>>}, a, b, 8)

BitAnd(a, b) == BitOp({<<1, 1>>}, a, b, 8)

BitXor(a, b) == BitOp({<<0, 1>>, <<1, 0>>}, a, b, 8)

\* v[i] of an array kept as the map of its non-zero elements
VecGet(v, i) == IF i \in DOMAIN v THEN v[i] ELSE 0

\* v with v[i] = x
VecSet(v, i, x) ==
    IF x = 0 THEN [j \in DOMAIN v \ {i} |-> v[j]]
    ELSE [j \in DOMAIN v \cup {i} |-> IF j = i THEN x ELSE v[j]]

(***************************************************************************)
(* src/instructions.rs: the decoder                                        *)
(***************************************************************************)
category(bytes) == (bytes \div 4096) % 16

vx(bytes) == (bytes \div 256) % 16

\* vy without its mask
vy_unmasked(bytes) == bytes \div 16

vy(bytes) == (bytes \div 16) % 16

n(bytes) == bytes % 16

nn(bytes) == bytes % 256

nnn(bytes) == bytes % 4096

\* an Instruction value: the variant's name and its (up to three) operands;
\* an absent operand is 0
Instr(op, a, b, c) == [op |-> op, a |-> a, b |-> b, c |-> c]

decode(bytes, location_int) ==
    IF bytes = 0 THEN Instr("Zero", 0, 0, 0)
    ELSE IF bytes = 224 THEN Instr("ClearScreen", 0, 0, 0)
    ELSE IF bytes = 238 THEN Instr("Return", 0, 0, 0)
    ELSE IF category(bytes) = 1 THEN Instr("Jump", nnn(bytes), 0, 0)
    ELSE IF category(bytes) = 2 THEN Instr("Subroutine", nnn(bytes), 0, 0)
    ELSE IF category(bytes) = 3 THEN Instr("SkipIfEqualRegVal", vx(bytes), nn(bytes), 0)
    ELSE IF category(bytes) = 4 THEN Instr("SkipIfNotEqualRegVal", vx(bytes), nn(bytes), 0)
    ELSE IF category(bytes) = 5 THEN Instr("SkipIfEqualRegReg", vx(bytes), vy(bytes), 0)
    ELSE IF category(bytes) = 6 THEN Instr("SetRegToVal", vx(bytes), nn(bytes), 0)
    ELSE IF category(bytes) = 7 THEN Instr("AddValToReg", vx(bytes), nn(bytes), 0)
    ELSE IF category(bytes) = 8 /\ n(bytes) = 0 THEN Instr("Set", vx(bytes), vy(bytes), 0)
    ELSE IF category(bytes) = 8 /\ n(bytes) = 1 THEN Instr("Or", vx(bytes), vy(bytes), 0)
    ELSE IF category(bytes) = 8 /\ n(bytes) = 2 THEN Instr("And", vx(bytes), vy(bytes), 0)
    ELSE IF category(bytes) = 8 /\ n(bytes) = 3 THEN Instr("Xor", vx(bytes), vy(bytes), 0)
    ELSE IF category(bytes) = 8 /\ n(bytes) = 4 THEN Instr("Add", vx(bytes), vy(bytes), 0)
    ELSE IF category(bytes) = 8 /\ n(bytes) = 5 THEN Instr("SubtractXY", vx(bytes), vy(bytes), 0)
    ELSE IF category(bytes) = 8 /\ n(bytes) = 6 THEN Instr("ShiftRight", vx(bytes), vy(bytes), 0)
    ELSE IF category(bytes) = 8 /\ n(bytes) = 7 THEN Instr("SubtractYX", vx(bytes), vy(bytes), 0)
    ELSE IF category(bytes) = 8 /\ n(bytes) = 14 THEN Instr("ShiftLeft", vx(bytes), vy(bytes), 0)
    ELSE IF category(bytes) = 9 THEN Instr("SkipIfNotEqualRegReg", vx(bytes), vy(bytes), 0)
    ELSE IF category(bytes) = 10 THEN Instr("SetIndexRegister", nnn(bytes), 0, 0)
    ELSE IF category(bytes) = 11 THEN Instr("JumpWithOffset", nnn(bytes), 0, 0)
    ELSE IF category(bytes) = 12 THEN Instr("Random", vx(bytes), nn(bytes), 0)
    ELSE IF category(bytes) = 13 THEN Instr("Display", vx(bytes), vy(bytes), n(bytes))
    ELSE IF category(bytes) = 14 /\ nn(bytes) = 158 THEN Instr("SkipIfKeyPressed", vx(bytes), 0, 0)
    ELSE IF category(bytes) = 14 /\ nn(bytes) = 161 THEN Instr("SkipIfKeyNotPressed", vx(bytes), 0, 0)
    ELSE IF category(bytes) = 15 /\ nn(bytes) = 7 THEN Instr("ReadDelayTimer", vx(bytes), 0, 0)
    ELSE IF category(bytes) = 15 /\ nn(bytes) = 21 THEN Instr("SetDelayTimer", vx(bytes), 0, 0)
    ELSE IF category(bytes) = 15 /\ nn(bytes) = 24 THEN Instr("SetSoundTimer", vx(bytes), 0, 0)
    ELSE IF category(bytes) = 15 /\ nn(bytes) = 30 THEN Instr("AddToIndex", vx(bytes), 0, 0)
    ELSE IF category(bytes) = 15 /\ nn(bytes) = 10 THEN Instr("GetKey", vx(bytes), 0, 0)
    ELSE IF category(bytes) = 15 /\ nn(bytes) = 41 THEN Instr("FontCharacter", vx(bytes), 0, 0)
    ELSE IF category(bytes) = 15 /\ nn(bytes) = 51 THEN Instr("ConvertToDecimal", vx(bytes), 0, 0)
    ELSE IF category(bytes) = 15 /\ nn(bytes) = 85 THEN Instr("RegistersToMemory", vx(bytes), 0, 0)
    ELSE IF category(bytes) = 15 /\ nn(bytes) = 101 THEN Instr("MemoryToRegisters", vx(bytes), 0, 0)
    ELSE Instr("Unknown", bytes, location_int, 0)

(***************************************************************************)
(* src/machine.rs: Display                                                 *)
(* pixels is the set of the indices (row * cols + column, as Array2D       *)
(* indexes its data vector) of the pixels that are true; rgba is the       *)
(* packed colour buffer, 4 bytes per pixel.                                *)
(***************************************************************************)
update_rgba_from_pixels(d) ==
    [d EXCEPT !.rgba =
        [k \in {4 * p + byte : p \in d.pixels, byte \in 0..3} |-> 255]]

DisplayDefault == update_rgba_from_pixels([pixels |-> {}, rgba |-> <<>>])

pixel(d, x, y) == (y * DISPLAY_WIDTH + x) \in d.pixels

\* set_pixel that only turns pixels on
set_pixel_on(d, x, y, v) ==
    update_rgba_from_pixels([d EXCEPT !.pixels = @ \cup {y * DISPLAY_WIDTH + x}])

set_pixel(d, x, y, v) ==
    update_rgba_from_pixels(
        [d EXCEPT !.pixels = IF v THEN @ \cup {y * DISPLAY_WIDTH + x}
                             ELSE @ \ {y * DISPLAY_WIDTH + x}])

clear(d) == update_rgba_from_pixels([d EXCEPT !.pixels = {}])

(***************************************************************************)
(* f64 arithmetic, as far as Timers::tick uses it.  A non-negative f64 is  *)
(* [int |-> its integer part, frac |-> the binary digits of its fractional *)
(* part, the most significant first, without trailing zeros].  An          *)
(* operation computes the exact result and rounds it to 53 significant     *)
(* binary digits, to nearest, ties to even (IEEE 754 binary64).            *)
(***************************************************************************)
F64_MANTISSA_DIGITS == 53

NANOS_PER_SEC == 1000000000

F64(int, frac) == [int |-> int, frac |-> frac]

F64Zero == F64(0, <<>>)

\* the number of binary digits of the natural number i < 2^30
BitLen(i) == CHOOSE k \in 0..30 : i < 2 ^ k /\ (k = 0 \/ i >= 2 ^ (k - 1))

\* bits without its trailing zeros
Trim(bits) ==
    IF \A i \in 1..Len(bits) : bits[i] = 0 THEN <<>>
    ELSE SubSeq(bits, 1, CHOOSE i \in 1..Len(bits) :
                             bits[i] = 1 /\ \A j \in (i + 1)..Len(bits) : bits[j] = 0)

BitAt(bits, i) == IF i >= 1 /\ i <= Len(bits) THEN bits[i] ELSE 0

\* the c binary digits of v < 2^c
Bits(v, c) == [i \in 1..c |-> (v \div (2 ^ (c - i))) % 2]

LeadingZeros(bits) ==
    IF \A i \in 1..Len(bits) : bits[i] = 0 THEN Len(bits)
    ELSE (CHOOSE i \in 1..Len(bits) : bits[i] = 1 /\ \A j \in 1..(i - 1) : bits[j] = 0) - 1

\* the number whose binary digits are the digits from..to of bits
Num(bits, from, to) ==
    LET num[i \in (from - 1)..to] ==
            IF i < from THEN 0 ELSE 2 * num[i - 1] + BitAt(bits, i)
    IN num[to]

\* the element of a set of one element: Only({e : v \in {x}}) is e with x for
\* v, x computed once however many times e uses v
Only(S) == CHOOSE r \in S : TRUE

\* x + 2^-k, where x has at most k fractional digits: the carry runs up to
\* the last digit 0 at or before k
AddUlp(x, k) ==
    LET last_zero(v) ==
            IF \A i \in 1..k : BitAt(v.frac, i) = 1 THEN 0
            ELSE CHOOSE i \in 1..k :
                     BitAt(v.frac, i) = 0 /\ \A j \in (i + 1)..k : BitAt(v.frac, j) = 1
        carried(v, z) ==
            IF z = 0 THEN F64(v.int + 1, <<>>)
            ELSE F64(v.int, [i \in 1..z |-> IF i = z THEN 1 ELSE v.frac[i]])
    IN Only({Only({carried(v, z) : z \in {last_zero(v)}}) : v \in {x}})

\* the f64 nearest to int + 0.frac (+ something below the last digit of frac
\* if sticky)
F64Round(int, frac, sticky) ==
    LET keep_of(i, f) == IF i > 0 THEN F64_MANTISSA_DIGITS - BitLen(i)
                         ELSE LeadingZeros(f) + F64_MANTISSA_DIGITS
        kept_of(i, f, keep) == F64(i, SubSeq(f, 1, IF keep < Len(f) THEN keep ELSE Len(f)))
        rounded_of(i, f, keep, kept) ==
            LET guard == BitAt(f, keep + 1)
                rest == sticky \/ \E j \in (keep + 2)..Len(f) : f[j] = 1
                lsb == IF keep = 0 THEN i % 2 ELSE BitAt(f, keep)
            IN IF guard = 1 /\ (rest \/ lsb = 1) THEN AddUlp(kept, keep) ELSE kept
        round(i, f) ==
            Only({Only({Only({F64(rounded.int, Trim(rounded.frac)) :
                                rounded \in {rounded_of(i, f, keep, kept)}}) :
                          kept \in {kept_of(i, f, keep)}}) :
                    keep \in {keep_of(i, f)}})
    IN Only({round(i, f) : i \in {int}, f \in {frac}})

RECURSIVE div_chunks(_, _, _, _)
\* long division, c binary digits at a time (d * 2^c < 2^31): the first
\* k * c digits of r / d (r < d) after the point, and the remainder left
div_chunks(r, d, c, k) ==
    IF k = 0 THEN [bits |-> <<>>, rem |-> r]
    ELSE LET chunk(s) ==
                 Only({[bits |-> Bits(s \div d, c) \o low.bits, rem |-> low.rem] :
                         low \in {div_chunks(s % d, d, c, k - 1)}})
         IN Only({chunk(s) : s \in {r * 2 ^ c}})

\* (a as f64) / (d as f64), for integers a < 2^30 and d = 2^p * odd with
\* odd < 2^21: a / odd by long division, then p places to the right
F64Div(a, d) ==
    IF a = 0 THEN F64Zero ELSE
    LET c == 10
        quotient(p, odd) ==
            Only({F64Round((a \div odd) \div (2 ^ p),
                           Bits((a \div odd) % (2 ^ p), p) \o q.bits, q.rem /= 0) :
                    q \in {div_chunks(a % odd, odd, c, (F64_MANTISSA_DIGITS + 32) \div c + 1)}})
    IN Only({Only({quotient(p, odd) : odd \in {d \div (2 ^ p)}}) :
               p \in {CHOOSE k \in 0..30 : d % (2 ^ k) = 0 /\ d % (2 ^ (k + 1)) /= 0}})

\* the fractional digits are added and multiplied LIMB_DIGITS at a time
LIMB_DIGITS == 15

\* limb l (1, 2, ..) of bits, as a number
Limb(bits, l) == Num(bits, (l - 1) * LIMB_DIGITS + 1, l * LIMB_DIGITS)

RECURSIVE add_limbs(_, _, _, _)
\* a + b from limb l down to the last of len limbs, with the carry out of limb l
add_limbs(a, b, l, len) ==
    IF l > len THEN [bits |-> <<>>, carry |-> 0]
    ELSE LET added(low, sum) ==
                 [bits |-> Bits(sum % (2 ^ LIMB_DIGITS), LIMB_DIGITS) \o low.bits,
                  carry |-> sum \div (2 ^ LIMB_DIGITS)]
             with(low) ==
                 Only({added(low, sum) : sum \in {Limb(a, l) + Limb(b, l) + low.carry}})
         IN Only({with(low) : low \in {add_limbs(a, b, l + 1, len)}})

\* x + y, exactly
ExactAdd(x, y) ==
    LET limbs(len) == (len + LIMB_DIGITS - 1) \div LIMB_DIGITS
        longer(a, b) == IF Len(a.frac) > Len(b.frac) THEN Len(a.frac) ELSE Len(b.frac)
        add(a, b) ==
            Only({F64(a.int + b.int + sum.carry, sum.bits) :
                    sum \in {add_limbs(a.frac, b.frac, 1, limbs(longer(a, b)))}})
    IN Only({add(a, b) : a \in {x}, b \in {y}})

\* x + y
F64Add(x, y) ==
    Only({F64Round(sum.int, sum.frac, FALSE) : sum \in {ExactAdd(x, y)}})

RECURSIVE mul_limbs(_, _, _, _)
\* a * c from limb l down to the last of len limbs, with the carry out of limb l
mul_limbs(a, c, l, len) ==
    IF l > len THEN [bits |-> <<>>, carry |-> 0]
    ELSE LET multiplied(low, prod) ==
                 [bits |-> Bits(prod % (2 ^ LIMB_DIGITS), LIMB_DIGITS) \o low.bits,
                  carry |-> prod \div (2 ^ LIMB_DIGITS)]
             with(low) ==
                 Only({multiplied(low, prod) : prod \in {Limb(a, l) * c + low.carry}})
         IN Only({with(low) : low \in {mul_limbs(a, c, l + 1, len)}})

\* x * c, exactly, for a natural number c < 2^15
ExactMulInt(x, c) ==
    LET limbs(len) == (len + LIMB_DIGITS - 1) \div LIMB_DIGITS
        mul(a) ==
            Only({F64(a.int * c + prod.carry, prod.bits) :
                    prod \in {mul_limbs(a.frac, c, 1, limbs(Len(a.frac)))}})
    IN Only({mul(a) : a \in {x}})

\* x * c, for a c that is a whole number (60.0)
F64MulInt(x, c) ==
    Only({F64Round(prod.int, prod.frac, FALSE) : prod \in {ExactMulInt(x, c)}})

\* Duration::as_secs_f64: (secs as f64) + (nanos as f64) / (NANOS_PER_SEC as f64)
as_secs_f64(secs, nanos) == F64Add(F64(secs, <<>>), F64Div(nanos, NANOS_PER_SEC))

(***************************************************************************)
(* src/machine.rs: Timers                                                  *)
(* The clock counts whole milliseconds.  last_tick is represented by the   *)
(* time elapsed since it (the argument of tick).  A clock that went        *)
(* backwards makes duration_since return Err, and its unwrap panics (see   *)
(* execute_one).                                                           *)
(***************************************************************************)
TimersDefault == [delay |-> 0, sound |-> 0, last_tick_remainder |-> F64Zero]

clamp(v, lo, hi) == IF v < lo THEN lo ELSE IF v > hi THEN hi ELSE v

tick(t, elapsed_ms) ==
    LET elapsed_s == as_secs_f64(elapsed_ms \div 1000, (elapsed_ms % 1000) * 1000000)
        ticked(decrement, rounded_decrement) ==
            [t EXCEPT \* decrement - rounded_decrement is exact
                      !.last_tick_remainder = F64(0, decrement.frac),
                      !.delay = clamp(t.delay - rounded_decrement, 0, 255),
                      !.sound = clamp(t.sound - rounded_decrement, 0, 255)]
    IN Only({ticked(decrement, decrement.int) :
               decrement \in {F64Add(t.last_tick_remainder, F64MulInt(elapsed_s, 60))}})

(***************************************************************************)
(* src/machine.rs: Machine                                                 *)
(***************************************************************************)
Panic(m) == [m EXCEPT !.panic = TRUE]

RECURSIVE init_font_loop(_, _)
\* the for loop of init_font from element i (1-based) on
init_font_loop(m, i) ==
    IF i > Len(FONT) THEN m
    ELSE init_font_loop(
             [m EXCEPT !.ram = VecSet(@, FONT_START_ADDRESS + (i - 1), FONT[i])], i + 1)

init_font(m) == init_font_loop(m, 1)

MachineDefault ==
    init_font(
        [display         |-> DisplayDefault,
         ram             |-> <<>>,
         stack           |-> <<>>,
         stack_index     |-> 0,
         program_counter |-> 0,
         index_register  |-> 0,
         registers       |-> [r \in 0..(NUM_REGISTERS - 1) |-> 0],
         key_pressed     |-> [k \in 0..(NUM_KEYS - 1) |-> FALSE],
         timers          |-> TimersDefault,
         panic           |-> FALSE])

set_flag_register(m, v) == [m EXCEPT !.registers[15] = v]

flag_register(m) == m.registers[15]

\* push_stack on a stack that grows instead of faulting at its capacity
push_stack_unbounded(m, v) ==
    [m EXCEPT !.stack = VecSet(@, m.stack_index, v), !.stack_index = @ + 1]

\* the machine after the call; the write to stack[stack_index] is bounds-checked
push_stack(m, v) ==
    LET m1 == IF m.stack_index > STACK_LEN
              THEN [m EXCEPT !.stack_index = STACK_LEN - 1]
              ELSE m
    IN IF m1.stack_index >= STACK_LEN
       THEN Panic(m1)
       ELSE [m1 EXCEPT !.stack = VecSet(@, m1.stack_index, v), !.stack_index = @ + 1]

\* pop_stack without the clamp of an empty stack: 0 - 1 overflows usize
pop_stack_unclamped(m) ==
    IF m.stack_index < 1 THEN <<Panic(m), 0>>
    ELSE <<[m EXCEPT !.stack_index = @ - 1], VecGet(m.stack, m.stack_index - 1)>>

\* <<the machine after the call, the value returned>>
pop_stack(m) ==
    LET m1 == IF m.stack_index < 1 THEN [m EXCEPT !.stack_index = 1] ELSE m
        m2 == [m1 EXCEPT !.stack_index = @ - 1]
    IN IF m2.stack_index >= STACK_LEN
       THEN <<Panic(m2), 0>>
       ELSE <<m2, VecGet(m2.stack, m2.stack_index)>>

\* the address with the 5 bytes of a character as the stride
get_character_address_stride_5(char) == U16(FONT_START_ADDRESS + char * 5)

get_character_address(char) == U16(FONT_START_ADDRESS + char * 4)

\* load_rom_from_bytes into a machine made anew
load_rom_from_bytes_into_default(m, data) ==
    [MachineDefault EXCEPT
        !.ram = [j \in DOMAIN @ \cup {ROM_START_ADDRESS + k - 1 : k \in 1..Len(data)} |->
                    IF j >= ROM_START_ADDRESS THEN data[j - ROM_START_ADDRESS + 1] ELSE @[j]],
        !.program_counter = ROM_START_ADDRESS]

\* the for loop writes data[i] at ROM_START_ADDRESS + i in turn, and the write
\* of the first element that does not fit in ram panics: the elements before
\* it are written, program_counter is not
load_rom_from_bytes(m, data) ==
    LET room == RAM_LEN - ROM_START_ADDRESS
        fits == IF Len(data) > room THEN room ELSE Len(data)
        at(j) == data[j - ROM_START_ADDRESS + 1]
        range == ROM_START_ADDRESS..(ROM_START_ADDRESS + fits - 1)
        written ==
            [m EXCEPT !.ram =
                [j \in (DOMAIN @ \ range) \cup {k \in range : at(k) /= 0} |->
                    IF j \in range THEN at(j) ELSE @[j]]]
    IN IF Len(data) > room THEN Panic(written)
       ELSE [written EXCEPT !.program_counter = ROM_START_ADDRESS]

RECURSIVE instrhex_bytes(_)
instrhex_bytes(data) ==
    IF data = <<>> THEN <<>>
    ELSE << (Head(data) \div 256) % 256, Head(data) % 256 >> \o instrhex_bytes(Tail(data))

load_rom_from_instrhex(m, data) == load_rom_from_bytes(m, instrhex_bytes(data))

\* <<panicked, the instruction>>: the two reads of ram are bounds-checked
decode_next_instruction(m) ==
    IF m.program_counter + 1 >= RAM_LEN
    THEN <<TRUE, Instr("Zero", 0, 0, 0)>>
    ELSE <<FALSE, decode(VecGet(m.ram, m.program_counter) * 256
                             + VecGet(m.ram, m.program_counter + 1),
                         m.program_counter)>>

_execute_subtract(m, rx, v1, v2) ==
    LET m1 == IF v1 >= v2 THEN set_flag_register(m, 1) ELSE set_flag_register(m, 0)
    IN [m1 EXCEPT !.registers[rx] = U8(v1 - v2 + 256)]


\* ram[addr] = v, bounds-checked
ram_write(m, addr, v) ==
    IF m.panic THEN m
    ELSE IF addr >= RAM_LEN THEN Panic(m)
    ELSE [m EXCEPT !.ram = VecSet(@, addr, v)]

RECURSIVE display_row(_, _, _, _, _, _)
\* the inner loop without the collision flag
display_row_without_flag(m, x, y, i, sprite_data, j) ==
    IF j >= 8 THEN m
    ELSE IF x + j >= DISPLAY_WIDTH THEN m
    ELSE IF (sprite_data \div (2 ^ (7 - j))) % 2 = 0
    THEN display_row(m, x, y, i, sprite_data, j + 1)
    ELSE display_row(
             [m EXCEPT !.display = set_pixel(@, x + j, y + i, ~pixel(@, x + j, y + i))],
             x, y, i, sprite_data, j + 1)

\* the inner loop with the columns past the right edge drawn from the left edge on
display_row_wrapping(m, x, y, i, sprite_data, j) ==
    IF j >= 8 THEN m
    ELSE LET column == (x + j) % DISPLAY_WIDTH
         IN IF (sprite_data \div (2 ^ (7 - j))) % 2 = 0
            THEN display_row(m, x, y, i, sprite_data, j + 1)
            ELSE IF pixel(m.display, column, y + i)
            THEN display_row(
                     set_flag_register(
                         [m EXCEPT !.display = set_pixel(@, column, y + i, FALSE)], 1),
                     x, y, i, sprite_data, j + 1)
            ELSE display_row(
                     [m EXCEPT !.display = set_pixel(@, column, y + i, TRUE)],
                     x, y, i, sprite_data, j + 1)

\* the inner loop `for j in 0..8` of the Display arm, from column j on
display_row(m, x, y, i, sprite_data, j) ==
    IF j >= 8 THEN m
    ELSE IF x + j >= DISPLAY_WIDTH THEN m
    ELSE LET sprite_val == (sprite_data \div (2 ^ (7 - j))) % 2
         IN IF sprite_val = 0
            THEN display_row(m, x, y, i, sprite_data, j + 1)
            ELSE IF pixel(m.display, x + j, y + i)
            THEN display_row(
                     set_flag_register(
                         [m EXCEPT !.display = set_pixel(@, x + j, y + i, FALSE)], 1),
                     x, y, i, sprite_data, j + 1)
            ELSE display_row(
                     [m EXCEPT !.display = set_pixel(@, x + j, y + i, TRUE)],
                     x, y, i, sprite_data, j + 1)

RECURSIVE display_rows(_, _, _, _, _)
\* the outer loop `for i in 0..n` of the Display arm, from row i on
display_rows(m, x, y, rows, i) ==
    IF i >= rows THEN m
    ELSE IF y + i >= DISPLAY_HEIGHT THEN m
    ELSE IF m.index_register + i >= RAM_LEN THEN Panic(m)
    ELSE display_rows(display_row(m, x, y, i, VecGet(m.ram, m.index_register + i), 0),
                      x, y, rows, i + 1)

RECURSIVE registers_to_memory(_, _, _)
\* the loop `for i in 0..vx+1` of the RegistersToMemory arm, from i on
registers_to_memory(m, rx, i) ==
    IF i >= rx + 1 THEN m
    ELSE IF m.index_register + i >= RAM_LEN THEN Panic(m)
    ELSE registers_to_memory(
             [m EXCEPT !.ram = VecSet(@, m.index_register + i, m.registers[i])],
             rx, i + 1)

RECURSIVE memory_to_registers(_, _, _)
\* the loop over the registers below vx only (`for i in 0..vx`)
memory_to_registers_exclusive(m, rx, i) ==
    IF i >= rx THEN m
    ELSE IF m.index_register + i >= RAM_LEN THEN Panic(m)
    ELSE memory_to_registers(
             [m EXCEPT !.registers[i] = VecGet(m.ram, m.index_register + i)],
             rx, i + 1)

\* the loop `for i in 0..vx+1` of the MemoryToRegisters arm, from i on
memory_to_registers(m, rx, i) ==
    IF i >= rx + 1 THEN m
    ELSE IF m.index_register + i >= RAM_LEN THEN Panic(m)
    ELSE memory_to_registers(
             [m EXCEPT !.registers[i] = VecGet(m.ram, m.index_register + i)],
             rx, i + 1)

\* the highest pressed key, or -1
first_pressed_from_the_end(m) ==
    IF \E k \in 0..(NUM_KEYS - 1) : m.key_pressed[k]
    THEN CHOOSE k \in 0..(NUM_KEYS - 1) :
             m.key_pressed[k] /\ \A l \in (k + 1)..(NUM_KEYS - 1) : ~m.key_pressed[l]
    ELSE -1

\* the lowest pressed key, or -1 (None)
first_pressed(m) ==
    IF \E k \in 0..(NUM_KEYS - 1) : m.key_pressed[k]
    THEN CHOOSE k \in 0..(NUM_KEYS - 1) :
             m.key_pressed[k] /\ \A l \in 0..(k - 1) : ~m.key_pressed[l]
    ELSE -1

\* the Subroutine arm pushing the address of the call itself
Subroutine_pushes_call(m, v) ==
    LET m1 == push_stack(m, U16(m.program_counter - 2))
    IN IF m1.panic THEN m1 ELSE [m1 EXCEPT !.program_counter = v]

Subroutine(m, v) ==
    LET m1 == push_stack(m, U16(m.program_counter))
    IN IF m1.panic THEN m1 ELSE [m1 EXCEPT !.program_counter = v]

Return(m) ==
    LET r == pop_stack(m)
    IN IF r[1].panic THEN r[1] ELSE [r[1] EXCEPT !.program_counter = r[2]]

JumpWithOffset(m, offset) ==
    [m EXCEPT !.program_counter = offset + m.registers[0]]

\* the AddToIndex arm with an else branch that clears the flag
AddToIndex_clears_flag(m, rx, overflow_checks) ==
    LET sum == m.index_register + m.registers[rx]
    IN IF sum > 65535 /\ overflow_checks THEN Panic(m)
       ELSE LET m1 == [m EXCEPT !.index_register = U16(sum)]
            IN set_flag_register(m1, IF m1.index_register > 4096 THEN 1 ELSE 0)

\* `self.index_register += ..` is a plain u16 addition: on overflow it panics
\* in a build with overflow checks (debug) and wraps in one without (release)
AddToIndex(m, rx, overflow_checks) ==
    LET sum == m.index_register + m.registers[rx]
    IN IF sum > 65535 /\ overflow_checks THEN Panic(m)
       ELSE LET m1 == [m EXCEPT !.index_register = U16(sum)]
            IN IF m1.index_register > 4096 THEN set_flag_register(m1, 1) ELSE m1

\* the Unknown arm going back to the instruction
Unknown_rewinds(m, bytes, location_int) == [m EXCEPT !.program_counter = @ - 2]

\* the Unknown arm prints bytes and location_int
Unknown(m, bytes, location_int) == m

\* a skip that does nothing
skip_never(m) == m

\* self.program_counter += 2 of the skip arms
skip(m) == [m EXCEPT !.program_counter = @ + 2]

GetKey(m, rx) ==
    LET key == first_pressed(m)
    IN IF key >= 0 THEN [m EXCEPT !.registers[rx] = key]
       ELSE [m EXCEPT !.program_counter = @ - 2]

\* the match of execute_one: the arm of `instruction`.  env holds what the
\* arm takes from outside the machine: the random byte and whether the build
\* checks integer overflow (debug) or wraps (release)
execute_instruction(m, instruction, env) ==
    LET a == instruction.a
        b == instruction.b
        c == instruction.c
        op == instruction.op
    IN CASE op = "Zero" -> m
       [] op = "ClearScreen" -> [m EXCEPT !.display = clear(@)]
       [] op = "Jump" -> [m EXCEPT !.program_counter = a]
       [] op = "SetRegToVal" -> [m EXCEPT !.registers[a] = b]
       [] op = "AddValToReg" -> [m EXCEPT !.registers[a] = U8(@ + b)]
       [] op = "SetIndexRegister" -> [m EXCEPT !.index_register = a]
       [] op = "Display" ->
            display_rows(set_flag_register(m, 0),
                         m.registers[a] % 64, m.registers[b] % 32, c, 0)
       [] op = "Subroutine" -> Subroutine(m, a)
       [] op = "Return" -> Return(m)
       [] op = "Unknown" -> Unknown(m, a, b)
       [] op = "SkipIfEqualRegVal" ->
            IF m.registers[a] = b THEN skip(m) ELSE m
       [] op = "SkipIfNotEqualRegVal" ->
            IF m.registers[a] /= b THEN skip(m) ELSE m
       [] op = "SkipIfEqualRegReg" ->
            IF m.registers[a] = m.registers[b] THEN skip(m) ELSE m
       [] op = "SkipIfNotEqualRegReg" ->
            IF m.registers[a] /= m.registers[b] THEN skip(m) ELSE m
       [] op = "Set" -> [m EXCEPT !.registers[a] = m.registers[b]]
       [] op = "Or" -> [m EXCEPT !.registers[a] = BitOr(@, m.registers[b])]
       [] op = "And" -> [m EXCEPT !.registers[a] = BitAnd(@, m.registers[b])]
       [] op = "Xor" -> [m EXCEPT !.registers[a] = BitXor(@, m.registers[b])]
       [] op = "Add" ->
            LET v1 == m.registers[a]
                v2 == m.registers[b]
                m1 == IF v1 + v2 > 255 THEN set_flag_register(m, 1)
                      ELSE set_flag_register(m, 0)
            IN [m1 EXCEPT !.registers[a] = U8(v1 + v2)]
       [] op = "SubtractXY" -> _execute_subtract(m, a, m.registers[a], m.registers[b])
       [] op = "SubtractYX" -> _execute_subtract(m, a, m.registers[b], m.registers[a])
       [] op = "ShiftLeft" ->
            LET v == m.registers[a]
            IN [set_flag_register(m, (v \div 128) % 2) EXCEPT !.registers[a] = U8(v * 2)]
       [] op = "ShiftRight" ->
            LET v == m.registers[a]
            IN [set_flag_register(m, v % 2) EXCEPT !.registers[a] = v \div 2]
       [] op = "JumpWithOffset" -> JumpWithOffset(m, a)
       [] op = "Random" -> [m EXCEPT !.registers[a] = BitAnd(env.random, b)]
       [] op = "SkipIfKeyPressed" ->
            IF m.registers[a] >= NUM_KEYS THEN Panic(m)
            ELSE IF m.key_pressed[m.registers[a]] THEN skip(m) ELSE m
       [] op = "SkipIfKeyNotPressed" ->
            IF m.registers[a] >= NUM_KEYS THEN Panic(m)
            ELSE IF ~m.key_pressed[m.registers[a]] THEN skip(m) ELSE m
       [] op = "ReadDelayTimer" -> [m EXCEPT !.registers[a] = m.timers.delay]
       [] op = "SetDelayTimer" -> [m EXCEPT !.timers.delay = m.registers[a]]
       [] op = "SetSoundTimer" -> [m EXCEPT !.timers.sound = m.registers[a]]
       [] op = "AddToIndex" -> AddToIndex(m, a, env.overflow_checks)
       [] op = "GetKey" -> GetKey(m, a)
       [] op = "FontCharacter" ->
            [m EXCEPT !.index_register = get_character_address(m.registers[a] % 16)]
       [] op = "ConvertToDecimal" ->
            LET val == m.registers[a]
            IN ram_write(
                   ram_write(
                       ram_write(m, m.index_register, val \div 100),
                       m.index_register + 1, (val \div 10) % 10),
                   m.index_register + 2, val % 10)
       [] op = "RegistersToMemory" -> registers_to_memory(m, a, 0)
       [] op = "MemoryToRegisters" -> memory_to_registers(m, a, 0)

\* execute_one without its last two statements
execute_one_without_reset(m, env) ==
    LET fetched == decode_next_instruction(m)
    IN IF fetched[1] THEN Panic(m)
       ELSE execute_instruction([m EXCEPT !.program_counter = @ + 2], fetched[2], env)

\* Machine::execute_one.  env.elapsed_ms is the time the clock advanced since
\* the last tick (negative: the system clock was set back)
execute_one(m, env) ==
    LET fetched == decode_next_instruction(m)
    IN IF fetched[1] THEN Panic(m)
       ELSE LET m1 == [m EXCEPT !.program_counter = @ + 2]
                m2 == execute_instruction(m1, fetched[2], env)
            IN IF m2.panic THEN m2
               ELSE LET m3 == [m2 EXCEPT !.key_pressed = [k \in 0..(NUM_KEYS - 1) |-> FALSE]]
                    IN IF env.elapsed_ms < 0 THEN Panic(m3)
                       ELSE [m3 EXCEPT !.timers = tick(@, env.elapsed_ms)]


(***************************************************************************)
(* State                                                                   *)
(***************************************************************************)
VARIABLES
    machine,          \* the Machine (behind the Arc<Mutex<..>> in main.rs)
    prev,             \* the machine as it was before the last operation on it
    last_op,          \* the last operation on the machine
    call_stack,       \* the return addresses of the calls not yet returned from
    prev_call_stack,  \* call_stack before the last operation
    sched_pc,         \* machine_thread: where the thread is in its loop
    execution_mode,   \* machine_thread: its local execution_mode
    queue,            \* the mpsc channel: the messages sent and not yet received
    sched_locked,     \* machine_thread holds the machine's mutex
    ui_locked,        \* the UI thread holds the machine's mutex
    ui_pc,            \* the UI thread: where it is
    ui_execution_mode, \* MyApp.execution_mode: the mode selected in the UI
    cycle_msg,        \* what try_recv returned in the current loop iteration
    cycle_execs,      \* execute_one calls made so far in the current loop iteration
    mid_execs,        \* execute_one calls made while play_rom is between its two statements
    obs               \* what a single-threaded caller passed to its last operations

machine_vars == <<machine, prev, last_op, call_stack, prev_call_stack>>

sched_vars == <<sched_pc, execution_mode, queue, sched_locked, cycle_msg, cycle_execs, mid_execs>>

ui_vars == <<ui_locked, ui_pc, ui_execution_mode>>

vars == <<machine, prev, last_op, call_stack, prev_call_stack, sched_pc, execution_mode,
          queue, sched_locked, ui_locked, ui_pc, ui_execution_mode, cycle_msg, cycle_execs,
          mid_execs, obs>>

(***************************************************************************)
(* What execute_one takes from outside the machine                         *)
(***************************************************************************)
\* the clock's advance between two ticks, in ms (the clock is not set back)
ElapsedMs == {0, 1000}

\* the bytes rng.gen::<u8>() returns
RandomBytes == {0, 255}

Envs == [random : RandomBytes, elapsed_ms : ElapsedMs, overflow_checks : BOOLEAN]

\* obs before any operation
NoObs ==
    [elapsed_ms |-> 0,
     data     |-> <<>>,
     loads    |-> 0,
     total_ms |-> 0,
     delay0   |-> 0,
     sound0   |-> 0,
     result   |-> "Ok",
     nibbles  |-> <<>>]

(***************************************************************************)
(* The call discipline, stated apart from the machine's stack: a call      *)
(* pushes the address of the instruction after it, a return pops.          *)
(***************************************************************************)
next_instruction(m) == decode_next_instruction(m)[2]

can_fetch(m) == ~m.panic /\ ~decode_next_instruction(m)[1]

calls_after(m, calls) ==
    IF ~can_fetch(m) THEN calls
    ELSE IF next_instruction(m).op = "Subroutine"
    THEN Append(calls, m.program_counter + 2)
    ELSE IF next_instruction(m).op = "Return" /\ calls /= <<>>
    THEN SubSeq(calls, 1, Len(calls) - 1)
    ELSE calls

(***************************************************************************)
(* Operations on the machine, as steps                                     *)
(***************************************************************************)
\* machine.execute_one()
DoExecuteOne(env) ==
    /\ prev' = machine
    /\ machine' = execute_one(machine, env)
    /\ last_op' = "execute_one"
    /\ prev_call_stack' = call_stack
    /\ call_stack' = calls_after(machine, call_stack)

\* machine = Machine::default(); machine.load_rom_from_instrhex(data)
from_instrhex(data) == load_rom_from_instrhex(MachineDefault, data)

(***************************************************************************)
(* Programs                                                                *)
(***************************************************************************)
\* 0x200: 2200  call 0x200 (unbounded recursion)
ProgRecursion == <<8704>>

\* the program of test_instr_subroutine:
\* 0x200: 2206 call 0x206; 0x202: 6001; 0x204: 1204 loop; 0x206: 6002; 0x208: 00EE
ProgSubroutine == <<8710, 24577, 4612, 24578, 238>>

\* 0x200: 2204 call 0x204; 0x202: 00EE return (stack empty the first time it runs);
\* 0x204: 00EE return
ProgUnderflow == <<8708, 238, 238>>

\* 0x200: 2206 call A; 0x202: 1202 loop; 0x204: 0000;
\* 0x206: A: 220A call B; 0x208: 00EE; 0x20A: B: 6001; 0x20C: 00EE
ProgNested == <<8710, 4610, 0, 8714, 238, 24577, 238>>

\* 0x200: 1FFD  jump 0xFFD
ProgOddJump == <<8189>>

\* 0x200: 60FF  V0 = 0xFF; 0x202: BFFF  jump 0xFFF + V0
ProgOffsetJump == <<24831, 49151>>

\* 0x200: 60FF V0 = 255; 0x202: F015 delay = V0; 0x204: 6205 V2 = 5;
\* 0x206: E29E skip if key V2 is pressed; 0x208: 1206;
\* 0x20A: F30A V3 = the key pressed (wait for one);
\* 0x20C: E2A1 skip if key V2 is not pressed; 0x20E: 120A; 0x210: 1206
ProgKeys == <<24831, 61461, 25093, 58014, 4614, 62218, 58017, 4618, 4614>>

\* 0x200: 60FF V0 = 255; 0x202: F015 delay = V0; 0x204: F018 sound = V0;
\* 0x206: F107 V1 = delay; 0x208: 1206
ProgTimers == <<24831, 61461, 61464, 61703, 4614>>

\* the program of test_instr_display, with what the test writes into the
\* machine done by instructions:
\* 0x200: 610A V1 = 10; 0x202: 6205 V2 = 5; 0x204: A20C I = 0x20C;
\* 0x206: D123 draw; 0x208: D123 draw again; 0x20A: 120A loop;
\* 0x20C: the sprite F0, 0F, 78 and a fourth row A0 that is not drawn
ProgDisplay == <<24842, 25093, 41484, 53539, 53539, 4618, 61455, 30880>>

\* sprites drawn over one another:
\* 0x200: C106 V1 = random & 6; 0x202: C202 V2 = random & 2; 0x204: A20A;
\* 0x206: D123 draw 3 rows at (V1, V2); 0x208: 1200; 0x20A: the sprite F0, 0F, 78
ProgDrawOverlap == <<49414, 49666, 41482, 53539, 4608, 61455, 30720>>

\* sprites drawn across the right and the bottom edge, from coordinates
\* beyond the grid:
\* 0x200: C17E V1 = random & 126; 0x202: C23F V2 = random & 63; 0x204: A20A;
\* 0x206: D123; 0x208: 1200; 0x20A: the sprite FF, FF, FF
ProgDrawEdge == <<49534, 49727, 41482, 53539, 4608, 65535, 65280>>

\* 0x200: A050 I = 0x50 (the font); 0x202: 60FF V0 = 255; 0x204: F055 store V0
\* at I; 0x206: 1206
ProgFontWrite == <<41040, 24831, 61525, 4614>>

\* 0x200: AFFF I = 0xFFF; 0x202: F155 store V0, V1 at I
ProgStoreAtTop == <<45055, 61781>>

\* 0x200: AFFF I = 0xFFF; 0x202: F165 load V0, V1 from I
ProgLoadAtTop == <<45055, 61797>>

\* 0x200: AFFE I = 0xFFE; 0x202: F033 the decimal digits of V0 at I
ProgDecimalAtTop == <<45054, 61491>>

\* 0x200: AFFF I = 0xFFF; 0x202: D012 draw the 2 rows at I
ProgDrawAtTop == <<45055, 53266>>

\* words that decode to Unknown, in a subroutine of a program that has drawn:
\* 0x200: 6105 V1 = 5; 0x202: A050 I = 0x50; 0x204: D115 draw 5 rows at (5, 5);
\* 0x206: 220A call 0x20A; 0x208: 1208 loop;
\* 0x20A: 8128; 0x20C: E100; 0x20E: F1FF; 0x210: 0123 (the four unknown words);
\* 0x212: 7101 V1 += 1; 0x214: 00EE return
ProgUnknown == <<24837, 41040, 53525, 8714, 4616, 33064, 57600, 61951, 291, 28929, 238>>

MachinePrograms ==
    {ProgRecursion, ProgSubroutine, ProgUnderflow, ProgNested, ProgOddJump, ProgOffsetJump,
     ProgFontWrite, ProgStoreAtTop, ProgLoadAtTop, ProgDecimalAtTop, ProgDrawAtTop}

(***************************************************************************)
(* SpecMachine: one thread owns the machine (as the tests of machine.rs    *)
(* do): it creates a machine with a program and calls execute_one on it.   *)
(***************************************************************************)
SchedIdle ==
    /\ sched_pc = "recv"
    /\ execution_mode = "StepByStep"
    /\ queue = <<>>
    /\ sched_locked = FALSE
    /\ cycle_msg = "None"
    /\ cycle_execs = 0
    /\ mid_execs = 0

UiIdle ==
    /\ ui_locked = FALSE
    /\ ui_pc = "idle"
    /\ ui_execution_mode = "StepByStep"

\* machine = Machine::from_instrhex(data), for one of `programs`
InitWith(programs) ==
    /\ \E data \in programs :
        /\ machine = from_instrhex(data)
        /\ prev = machine
        /\ obs = [NoObs EXCEPT !.data = data]
    /\ last_op = "from_instrhex"
    /\ call_stack = <<>>
    /\ prev_call_stack = <<>>
    /\ SchedIdle
    /\ UiIdle

InitMachine == InitWith(MachinePrograms)

Execute ==
    /\ ~machine.panic
    /\ \E env \in Envs :
        /\ DoExecuteOne(env)
        /\ obs' = [obs EXCEPT !.elapsed_ms = env.elapsed_ms]
    /\ UNCHANGED <<sched_vars, ui_vars>>

\* another machine, instead of the one just created
FromInstrhex ==
    /\ last_op = "from_instrhex"
    /\ \E data \in MachinePrograms :
        /\ machine' = from_instrhex(data)
        /\ prev' = machine'
        /\ obs' = [NoObs EXCEPT !.data = data]
    /\ last_op' = "from_instrhex"
    /\ call_stack' = <<>>
    /\ prev_call_stack' = <<>>
    /\ UNCHANGED <<sched_vars, ui_vars>>

NextMachine == Execute \/ FromInstrhex

SpecMachine == InitMachine /\ [][NextMachine]_vars

(***************************************************************************)
(* SpecKeys: one thread owns the machine and presses keys between the      *)
(* instructions of a program (as test_instr_skip_if_pressed and            *)
(* test_instr_get_key do).                                                 *)
(***************************************************************************)
KeysPrograms ==
    {ProgKeys, ProgTimers, ProgSubroutine, ProgDisplay, ProgFontWrite, ProgUnknown}

\* the keys a caller presses
PressableKeys == {4, 5}

InitKeys == InitWith(KeysPrograms)

\* machine.key_pressed[key] = true
PressKey ==
    /\ ~machine.panic
    /\ \E key \in PressableKeys :
        machine' = [machine EXCEPT !.key_pressed[key] = TRUE]
    /\ prev' = machine
    /\ last_op' = "press_key"
    /\ prev_call_stack' = call_stack
    /\ UNCHANGED <<call_stack, obs, sched_vars, ui_vars>>

NextKeys == Execute \/ PressKey

SpecKeys == InitKeys /\ [][NextKeys]_vars

(***************************************************************************)
(* SpecAlu: one thread owns the machine and runs a program that sets two   *)
(* registers and executes one instruction on them (as test_instr_add,      *)
(* test_instr_subtract_xy, test_instr_shift_left, test_instr_skip_if_equal *)
(* do), or a program that adds to the index register.                      *)
(***************************************************************************)
\* 0x200: 6Xaa VX = a; 0x202: 6Ybb VY = b; 0x204: the instruction on VX and VY
\* (8XY4, 8XY5, 8XY6, 8XY7, 8XYE, 7Xbb, 3Xbb, 4Xbb, 5XY0, 9XY0);
\* 0x206: 1206 loop; 0x208: 1208 loop (after a skip)
\* and
\* 0x200: 6F01 VF = 1; 0x202: A000; 0x204: 6005; 0x206: F01E I += V0; 0x208: 1208
\* 0x200: AFFF I = 0xFFF; 0x202: 6001; 0x204: F01E (I = 0x1000);
\*     0x206: F01E (I = 0x1001); 0x208: 1208
\* 0x200: AFFF; 0x202: 6FFF VF = 0xFF; 0x204: FF1E I += VF; 0x206: 1206
\* 0x200: AFFF; 0x202: 6080 V0 = 0x80; 0x204: F01E I += V0; 0x206: 1204 again
AluPrograms ==
    {<<24576 + 256 * x + a, 24576 + 256 * y + b, word, 4614, 4616>> :
        <<x, y, a, b, word>> \in
            UNION {{<<x, y, a, b, word>> :
                        word \in {32768 + 256 * x + 16 * y + k : k \in {4, 5, 6, 7, 14}}
                                 \cup {28672 + 256 * x + b, 12288 + 256 * x + b,
                                       16384 + 256 * x + b, 20480 + 256 * x + 16 * y,
                                       36864 + 256 * x + 16 * y}} :
                      <<x, y, a, b>> \in {0, 1, 15} \X {0, 1, 15} \X {0, 1, 128, 255}
                                            \X {0, 1, 128, 255}}}
    \cup {<<28417, 40960, 24581, 61470, 4616>>,
          <<45055, 24577, 61470, 61470, 4616>>,
          <<45055, 28671, 65310, 4614>>,
          <<45055, 24704, 61470, 4612>>}

SpecAlu == InitWith(AluPrograms) /\ [][Execute]_vars

(***************************************************************************)
(* SpecFx: one thread owns the machine, runs a program that sets registers *)
(* and executes an instruction of the E and F families on them (as         *)
(* test_instr_font_character, test_instr_registers_to_memory,              *)
(* test_instr_memory_to_registers, test_instr_skip_if_pressed and          *)
(* test_instr_set_delay_timer do), and presses keys between instructions.  *)
(***************************************************************************)
\* 0x200: 6Xaa VX = a; 0x202: FX29 I = the font character of VX; 0x204: 1204
\* and
\* 0x200: 6Xaa VX = a; 0x202: EX9E or EXA1 skip on the key VX; 0x204: 1204;
\*     0x206: 1206 (after a skip)
\* and
\* 0x200: 6011; 0x202: 6122; 0x204: 6233; 0x206: 6F44 (V0, V1, V2, VF);
\*     0x208: A300 I = 0x300; 0x20A: FX55 store V0..VX at I;
\*     0x20C: A200 I = 0x200; 0x20E: FY65 load V0..VY from I; 0x210: 1210
\* and the program of the timers
FxPrograms ==
    {<<24576 + 256 * x + a, 61481 + 256 * x, 4612>> : x \in {0, 15}, a \in 0..255}
    \cup {<<24576 + 256 * x + a, word + 256 * x, 4612, 4614>> :
             x \in {0, 15}, a \in 0..255, word \in {57502, 57505}}
    \cup {<<24593, 24866, 25139, 28484, 41728, 61525 + 256 * x, 41472, 61541 + 256 * y,
            4624>> : x \in {0, 1, 2, 15}, y \in {0, 1, 2, 15}}
    \cup {ProgTimers}

SpecFx == InitWith(FxPrograms) /\ [][NextKeys]_vars

(***************************************************************************)
(* SpecDecode: a machine is created with one word as its program, and the  *)
(* word is decoded (decode_next_instruction), for every 16-bit word.       *)
(***************************************************************************)
\* Machine::from_instrhex(&[word]), the word made of the four nibbles c, x, y, z
DecodeWord ==
    /\ obs.nibbles = <<>>
    /\ \E c \in 0..15, x \in 0..15, y \in 0..15, z \in 0..15 :
        /\ machine' = from_instrhex(<<4096 * c + 256 * x + 16 * y + z>>)
        /\ obs' = [NoObs EXCEPT !.data = <<4096 * c + 256 * x + 16 * y + z>>,
                                !.nibbles = <<c, x, y, z>>]
    /\ prev' = machine'
    /\ last_op' = "from_instrhex"
    /\ call_stack' = <<>>
    /\ prev_call_stack' = <<>>
    /\ UNCHANGED <<sched_vars, ui_vars>>

\* the machine before is one with the program 0x200: 1200
SpecDecode == InitWith({<<4608>>}) /\ [][DecodeWord]_vars

(***************************************************************************)
(* SpecDisplay: one thread owns the machine and runs a program that draws. *)
(***************************************************************************)
DisplayPrograms == {ProgDisplay, ProgDrawOverlap, ProgDrawEdge}

InitDisplay == InitWith(DisplayPrograms)

NextDisplay == Execute

SpecDisplay == InitDisplay /\ [][NextDisplay]_vars

(***************************************************************************)
(* SpecLoader: one thread owns the machine, and loads a ROM image into it  *)
(* between the instructions of a program.                                  *)
(***************************************************************************)
LoaderPrograms == {ProgSubroutine, ProgDisplay, ProgFontWrite}

\* ROM images for load_rom_from_bytes: 3 bytes (1200 jump 0x200 and half an
\* instruction), 4 bytes (6101 V1 = 1, 1200), one that fills the memory to its
\* last byte (1200 first), and one that is a byte longer than the memory after
\* ROM_START_ADDRESS
RomImages ==
    {<<18, 0, 171>>,
     <<97, 1, 18, 0>>,
     [i \in 1..(RAM_LEN - ROM_START_ADDRESS) |->
         IF i = 1 THEN 18 ELSE IF i = RAM_LEN - ROM_START_ADDRESS THEN 1 ELSE 0],
     [i \in 1..(RAM_LEN - ROM_START_ADDRESS + 1) |-> IF i = 1 THEN 18 ELSE 0]}

\* the images loaded into one machine
MaxLoads == 1

InitLoader == InitWith(LoaderPrograms)

\* machine.load_rom_from_bytes(data), on the machine as it is
LoadRomFromBytes ==
    /\ ~machine.panic
    /\ obs.loads < MaxLoads
    /\ \E data \in RomImages :
        /\ machine' = load_rom_from_bytes(machine, data)
        /\ obs' = [obs EXCEPT !.data = data, !.loads = @ + 1]
    /\ prev' = machine
    /\ last_op' = "load_rom_from_bytes"
    /\ prev_call_stack' = call_stack
    /\ UNCHANGED <<call_stack, sched_vars, ui_vars>>

NextLoader == Execute \/ LoadRomFromBytes

SpecLoader == InitLoader /\ [][NextLoader]_vars

(***************************************************************************)
(* SpecTimers: the clock advances between the instructions of a program    *)
(* that loops and leaves the timers alone (as test_timers_decrement does). *)
(***************************************************************************)
\* 0x200: 1200  jump 0x200
ProgLoop == <<4608>>

\* the timers a caller sets before the first instruction
TimerStarts == {[delay |-> 120, sound |-> 240], [delay |-> 2, sound |-> 255]}

\* by how much the clock advances between two instructions, in ms
TimerElapsedMs == {0, 10, 16, 50}

\* the time the clock advances in all, in ms
MaxTotalMs == 120

\* machine.timers.sound = ..; machine.timers.delay = ..
InitTimers ==
    /\ \E start \in TimerStarts :
        /\ machine = [from_instrhex(ProgLoop) EXCEPT !.timers.delay = start.delay,
                                                     !.timers.sound = start.sound]
        /\ prev = machine
        /\ obs = [NoObs EXCEPT !.data = ProgLoop, !.delay0 = start.delay,
                               !.sound0 = start.sound]
    /\ last_op = "from_instrhex"
    /\ call_stack = <<>>
    /\ prev_call_stack = <<>>
    /\ SchedIdle
    /\ UiIdle

\* mock_time::set_mock_time(..); machine.execute_one()
TimersExecute ==
    /\ ~machine.panic
    /\ \E elapsed \in TimerElapsedMs :
        /\ obs.total_ms + elapsed <= MaxTotalMs
        /\ DoExecuteOne([random |-> 0, elapsed_ms |-> elapsed, overflow_checks |-> FALSE])
        /\ obs' = [obs EXCEPT !.elapsed_ms = elapsed, !.total_ms = @ + elapsed]
    /\ UNCHANGED <<sched_vars, ui_vars>>

NextTimers == TimersExecute

SpecTimers == InitTimers /\ [][NextTimers]_vars

(***************************************************************************)
(* src/main.rs: the scheduler thread (machine_thread), the channel and the *)
(* machine's mutex, and the thread that owns them (MyApp)                  *)
(***************************************************************************)
\* a Message; mode is "" when the message carries none
Msg(type, mode) == [type |-> type, mode |-> mode]

ExecutionModes == {"StepByStep", "Continuous"}

\* the most messages in the channel at once (Exit excepted: on_exit always sends)
MaxQueue == 2

\* the most instructions the scheduler runs while play_rom is between its two
\* statements
MaxMidExecs == 1

TARGET_INSTRUCTIONS_PER_SECOND == 700

\* the f64 literal 10e9 (ten times 10^9) of line 44.  Numbers beyond 2^31 are
\* kept as their digits of base 2^16, the most significant first, without
\* leading zeros
TEN_E9 == <<2, 21515, 58368>>

\* `v as u32` of a non-negative f64 with an integer value: the cast saturates
\* at u32::MAX
as_u32(v) == IF Len(v) > 2 THEN <<65535, 65535>> ELSE v

\* the u32 division `v / divisor`, for a divisor below 2^15
div_u32(v, divisor) ==
    IF Len(v) = 0 THEN 0
    ELSE IF Len(v) = 1 THEN v[1] \div divisor
    ELSE (v[1] \div divisor) * 65536 + ((v[1] % divisor) * 65536 + v[2]) \div divisor

\* let sleep_duration = Duration::new(0, 10e9 as u32 / TARGET_INSTRUCTIONS_PER_SECOND);
sleep_duration ==
    [secs |-> 0, nanos |-> div_u32(as_u32(TEN_E9), TARGET_INSTRUCTIONS_PER_SECOND)]

\* a lock that does not wait
can_lock_always == TRUE

\* Mutex::lock returns once no thread holds the mutex
can_lock == ~sched_locked /\ ~ui_locked

\* the guard bound to a variable that lives to the end of the loop body
guard_kept == TRUE

\* the state of the mutex flag once the temporary guard of
\* `machine.lock().execute_one();` is dropped at the end of the statement
guard_dropped == FALSE

\* the test of the mode left out: every iteration executes
after_match_always(mode) == "lock_cont"

\* `if execution_mode == ExecutionMode::Continuous { ... }`: where the loop goes
\* after the match on the message
after_match(mode) == IF mode = "Continuous" THEN "lock_cont" ELSE "sleep"

\* the receiver is dropped when machine_thread returns or unwinds
receiver_dropped == sched_pc \in {"done", "panicked"}

\* a panic of the main thread (an unwrap in MyApp) ends the process, and with
\* it the scheduler thread
process_alive == ui_pc /= "panicked"

\* Err(_) => {}
RecvEmpty ==
    /\ process_alive
    /\ sched_pc = "recv"
    /\ queue = <<>>
    /\ cycle_msg' = "None"
    /\ cycle_execs' = 0
    /\ sched_pc' = after_match(execution_mode)
    /\ UNCHANGED <<obs, machine_vars, ui_vars, execution_mode, queue, sched_locked, mid_execs>>

\* Ok(Message::ExecuteOne) => machine.lock()...
RecvExecuteOne ==
    /\ process_alive
    /\ sched_pc = "recv"
    /\ queue /= <<>>
    /\ Head(queue).type = "ExecuteOne"
    /\ queue' = Tail(queue)
    /\ cycle_msg' = "ExecuteOne"
    /\ cycle_execs' = 0
    /\ sched_pc' = "lock_msg"
    /\ UNCHANGED <<obs, machine_vars, ui_vars, execution_mode, sched_locked, mid_execs>>

\* the message taken from the back of the channel (the newest one)
RecvChangeMode_newest ==
    /\ process_alive
    /\ sched_pc = "recv"
    /\ queue /= <<>>
    /\ queue[Len(queue)].type = "ChangeMode"
    /\ queue' = SubSeq(queue, 1, Len(queue) - 1)
    /\ cycle_msg' = "ChangeMode"
    /\ cycle_execs' = 0
    /\ execution_mode' = queue[Len(queue)].mode
    /\ sched_pc' = after_match(execution_mode')
    /\ UNCHANGED <<obs, machine_vars, ui_vars, sched_locked, mid_execs>>

\* Ok(Message::ChangeMode(mode)) => execution_mode = mode
RecvChangeMode ==
    /\ process_alive
    /\ sched_pc = "recv"
    /\ queue /= <<>>
    /\ Head(queue).type = "ChangeMode"
    /\ queue' = Tail(queue)
    /\ cycle_msg' = "ChangeMode"
    /\ cycle_execs' = 0
    /\ execution_mode' = Head(queue).mode
    /\ sched_pc' = after_match(execution_mode')
    /\ UNCHANGED <<obs, machine_vars, ui_vars, sched_locked, mid_execs>>

\* Exit handled as a message that does not leave the loop
RecvExit_continues ==
    /\ process_alive
    /\ sched_pc = "recv"
    /\ queue /= <<>>
    /\ Head(queue).type = "Exit"
    /\ queue' = Tail(queue)
    /\ cycle_msg' = "Exit"
    /\ cycle_execs' = 0
    /\ sched_pc' = after_match(execution_mode)
    /\ UNCHANGED <<obs, machine_vars, ui_vars, execution_mode, sched_locked, mid_execs>>

\* Ok(Message::Exit) => break
RecvExit ==
    /\ process_alive
    /\ sched_pc = "recv"
    /\ queue /= <<>>
    /\ Head(queue).type = "Exit"
    /\ queue' = Tail(queue)
    /\ cycle_msg' = "Exit"
    /\ cycle_execs' = 0
    /\ sched_pc' = "done"
    /\ UNCHANGED <<obs, machine_vars, ui_vars, execution_mode, sched_locked, mid_execs>>

\* machine.lock() of either execute_one statement
SchedLock ==
    /\ process_alive
    /\ sched_pc \in {"lock_msg", "lock_cont"}
    /\ can_lock
    /\ ui_pc = "play_mid" => mid_execs < MaxMidExecs
    /\ sched_locked' = TRUE
    /\ sched_pc' = IF sched_pc = "lock_msg" THEN "exec_msg" ELSE "exec_cont"
    /\ UNCHANGED <<obs, machine_vars, ui_vars, execution_mode, queue, cycle_msg, cycle_execs,
                   mid_execs>>

\* .execute_one(); and the drop of the guard.  A panic unwinds the thread
\* (the guard is dropped, egui's Mutex does not poison)
SchedExecute(at, then) ==
    /\ process_alive
    /\ sched_pc = at
    /\ \E env \in Envs : DoExecuteOne(env)
    /\ sched_locked' = guard_dropped
    /\ cycle_execs' = cycle_execs + 1
    /\ mid_execs' = IF ui_pc = "play_mid" THEN mid_execs + 1 ELSE mid_execs
    /\ sched_pc' = IF machine'.panic THEN "panicked" ELSE then
    /\ UNCHANGED <<obs, ui_vars, execution_mode, queue, cycle_msg>>

\* the continuous-mode execute_one as the `else` of the message's
SchedExecuteMsg_only == SchedExecute("exec_msg", "sleep")

\* line 50: the execute_one of an ExecuteOne message
SchedExecuteMsg == SchedExecute("exec_msg", after_match(execution_mode))

\* line 61: the execute_one of continuous mode
SchedExecuteCont == SchedExecute("exec_cont", "sleep")

\* thread::sleep(sleep_duration); the next loop iteration begins
SchedSleep ==
    /\ process_alive
    /\ sched_pc = "sleep"
    /\ sched_pc' = "recv"
    /\ cycle_msg' = "None"
    /\ cycle_execs' = 0
    /\ UNCHANGED <<obs, machine_vars, ui_vars, execution_mode, queue, sched_locked, mid_execs>>

SchedStep ==
    \/ RecvEmpty
    \/ RecvExecuteOne
    \/ RecvChangeMode
    \/ RecvExit
    \/ SchedLock
    \/ SchedExecuteMsg
    \/ SchedExecuteCont
    \/ SchedSleep


(***************************************************************************)
(* The UI thread (MyApp).  It touches the machine only inside              *)
(* self.machine.lock(): each such statement is a step that takes the lock  *)
(* and a step that works on the machine and drops the guard.               *)
(***************************************************************************)
\* the keymap of _egui_events_to_machine
KeyMap ==
    [Num1 |-> 1, Num2 |-> 2, Num3 |-> 3, Num4 |-> 12,
     Q |-> 4, W |-> 5, E |-> 6, R |-> 13,
     A |-> 7, S |-> 8, D |-> 9, F |-> 14,
     Y |-> 10, X |-> 0, C |-> 11, V |-> 15]

KeyEvent(key, pressed) == [key |-> key, pressed |-> pressed]

RECURSIVE _egui_events_to_machine(_, _)
_egui_events_to_machine(events, m) ==
    IF events = <<>> THEN m
    ELSE _egui_events_to_machine(
             Tail(events),
             IF Head(events).key \in DOMAIN KeyMap
             THEN [m EXCEPT !.key_pressed[KeyMap[Head(events).key]] = Head(events).pressed]
             ELSE m)

\* the key events of one frame
FrameEvents ==
    { <<>>,
      <<KeyEvent("X", TRUE)>>,
      <<KeyEvent("V", TRUE), KeyEvent("V", FALSE)>>,
      <<KeyEvent("Escape", TRUE)>> }

\* a ROM file: whether it can be opened and read, and the bytes read from it
RomFile(readable, bytes) == [readable |-> readable, bytes |-> bytes]

MissingFile == RomFile(FALSE, <<>>)

RomFiles ==
    {RomFile(TRUE, instrhex_bytes(ProgSubroutine)),
     RomFile(TRUE, instrhex_bytes(ProgOddJump)),
     MissingFile}

\* <<the machine after the call, the io::Result>>
load_rom_from_file(m, file) ==
    IF ~file.readable THEN <<m, "Err">>
    ELSE <<load_rom_from_bytes(m, file.bytes), "Ok">>

\* a statement of the UI thread takes the machine's lock
UiLock(to) ==
    /\ ui_pc = "idle"
    /\ can_lock
    /\ ui_locked' = TRUE
    /\ ui_pc' = to
    /\ UNCHANGED <<obs, machine_vars, sched_vars, ui_execution_mode>>

\* update: let mut machine = self.machine.lock();
UiUpdateLock == UiLock("update")

\* update: ctx.input(|i| _egui_events_to_machine(i, &mut machine)); and the
\* end of the block
UiUpdate ==
    /\ ui_pc = "update"
    /\ \E events \in FrameEvents :
        machine' = _egui_events_to_machine(events, machine)
    /\ ui_locked' = FALSE
    /\ ui_pc' = "idle"
    /\ UNCHANGED <<obs, prev, last_op, call_stack, prev_call_stack, sched_vars, ui_execution_mode>>

\* ui_instruction: self.machine.lock()
UiInstructionLock == UiLock("ui_instruction")

\* ui_instruction: .decode_next_instruction(); the machine is only read (the
\* reads of ui_keypad, ui_memory, ui_registers and custom_painting are alike).
\* The fetch is bounds-checked here as in execute_one
UiInstruction ==
    /\ ui_pc = "ui_instruction"
    /\ ui_locked' = FALSE
    /\ ui_pc' = IF decode_next_instruction(machine)[1] THEN "panicked" ELSE "idle"
    /\ UNCHANGED <<obs, machine_vars, sched_vars, ui_execution_mode>>

\* self.machine_thread_tx.send(..).unwrap(), for ChangeMode and ExecuteOne
UiSend ==
    /\ ui_pc = "idle"
    /\ Len(queue) < MaxQueue
    /\ \E msg \in {Msg("ExecuteOne", "")} \cup {Msg("ChangeMode", mode) : mode \in ExecutionModes} :
        IF receiver_dropped
        THEN /\ ui_pc' = "panicked"
             /\ UNCHANGED <<queue>>
        ELSE /\ queue' = Append(queue, msg)
             /\ UNCHANGED <<ui_pc>>
    /\ UNCHANGED <<obs, machine_vars, ui_locked, ui_execution_mode, sched_pc, execution_mode,
                   sched_locked, cycle_msg, cycle_execs, mid_execs>>

\* play_rom: *self.machine.lock()
UiPlayRomLock == UiLock("replace")

\* play_rom: = Machine::default();
UiPlayRomReplace ==
    /\ ui_pc = "replace"
    /\ machine' = MachineDefault
    /\ prev' = machine
    /\ last_op' = "default"
    /\ call_stack' = <<>>
    /\ prev_call_stack' = call_stack
    /\ ui_locked' = FALSE
    /\ ui_pc' = "play_mid"
    /\ mid_execs' = 0
    /\ UNCHANGED <<obs, ui_execution_mode, sched_pc, execution_mode, queue, sched_locked, cycle_msg,
                   cycle_execs>>

\* play_rom: self.machine.lock()
UiPlayRomLoadLock ==
    /\ ui_pc = "play_mid"
    /\ can_lock
    /\ ui_locked' = TRUE
    /\ ui_pc' = "load"
    /\ UNCHANGED <<obs, machine_vars, sched_vars, ui_execution_mode>>

\* play_rom: .load_rom_from_file(filepath).unwrap();
UiPlayRomLoad ==
    /\ ui_pc = "load"
    /\ \E file \in RomFiles :
        LET r == load_rom_from_file(machine, file)
        IN /\ machine' = r[1]
           /\ ui_pc' = IF r[2] = "Err" \/ r[1].panic THEN "panicked" ELSE "idle"
           /\ obs' = [obs EXCEPT !.result = r[2]]
    /\ prev' = machine
    /\ last_op' = "load_rom_from_file"
    /\ call_stack' = <<>>
    /\ prev_call_stack' = call_stack
    /\ ui_locked' = FALSE
    /\ mid_execs' = 0
    /\ UNCHANGED <<ui_execution_mode, sched_pc, execution_mode, queue, sched_locked, cycle_msg,
                   cycle_execs>>

\* on_exit: self.machine_thread_tx.send(Message::Exit).unwrap();
UiOnExit ==
    /\ ui_pc = "idle"
    /\ IF receiver_dropped
       THEN /\ ui_pc' = "panicked"
            /\ UNCHANGED <<queue>>
       ELSE /\ queue' = Append(queue, Msg("Exit", ""))
            /\ ui_pc' = "join"
    /\ UNCHANGED <<obs, machine_vars, ui_locked, ui_execution_mode, sched_pc, execution_mode,
                   sched_locked, cycle_msg, cycle_execs, mid_execs>>

\* on_exit: handle.join().expect("Failed to join"): join returns once the
\* thread has ended, with Err when it panicked
UiJoin ==
    /\ ui_pc = "join"
    /\ receiver_dropped
    /\ ui_pc' = IF sched_pc = "panicked" THEN "panicked" ELSE "exited"
    /\ UNCHANGED <<obs, machine_vars, sched_vars, ui_locked, ui_execution_mode>>

UiStep ==
    \/ UiUpdateLock
    \/ UiUpdate
    \/ UiInstructionLock
    \/ UiInstruction
    \/ UiSend
    \/ UiPlayRomLock
    \/ UiPlayRomReplace
    \/ UiPlayRomLoadLock
    \/ UiPlayRomLoad
    \/ UiOnExit
    \/ UiJoin

(***************************************************************************)
(* SpecSched: MyApp::new creates the machine, loads a ROM and spawns       *)
(* machine_thread; then the two threads run.                               *)
(***************************************************************************)
InitSched ==
    /\ \E file \in RomFiles \ {MissingFile} :
        /\ machine = load_rom_from_file(MachineDefault, file)[1]
        /\ prev = machine
    /\ last_op = "load_rom_from_file"
    /\ call_stack = <<>>
    /\ prev_call_stack = <<>>
    /\ obs = NoObs
    /\ SchedIdle
    /\ UiIdle

NextSched == SchedStep \/ UiStep

SpecSched == InitSched /\ [][NextSched]_vars

\* the scheduler thread keeps running, and the UI thread leaves every block
\* that holds the lock
FairSched ==
    /\ WF_vars(SchedStep)
    /\ WF_vars(UiUpdate \/ UiInstruction \/ UiPlayRomReplace \/ UiPlayRomLoad)

SpecSchedFair == SpecSched /\ FairSched

(***************************************************************************)
(* SpecProtocol: the two threads, with the UI thread sending what          *)
(* ui_instruction sends in a frame: ChangeMode with the mode selected in   *)
(* the UI, then ExecuteOne when that mode is step-by-step and the button   *)
(* was clicked.                                                            *)
(***************************************************************************)
\* ui_instruction: the two selectable values (the user picks a mode, or leaves
\* the one selected) and
\* self.machine_thread_tx.send(Message::ChangeMode(self.execution_mode)).unwrap()
UiSendChangeMode ==
    /\ ui_pc = "idle"
    /\ Len(queue) < MaxQueue
    /\ \E mode \in ExecutionModes :
        /\ ui_execution_mode' = mode
        /\ IF receiver_dropped
           THEN /\ ui_pc' = "panicked"
                /\ UNCHANGED <<queue>>
           ELSE /\ queue' = Append(queue, Msg("ChangeMode", mode))
                /\ ui_pc' = "sent_mode"
    /\ UNCHANGED <<obs, machine_vars, ui_locked, sched_pc, execution_mode, sched_locked,
                   cycle_msg, cycle_execs, mid_execs>>

\* the button tested in either mode
can_execute_next_in_any_mode == TRUE

\* self.execution_mode == ExecutionMode::StepByStep (&& the button ...)
can_execute_next == ui_execution_mode = "StepByStep"

\* ui_instruction: if self.execution_mode == ExecutionMode::StepByStep
\* && ui.button("Execute next").clicked() { ..send(Message::ExecuteOne).unwrap(); }
UiSendExecuteOne ==
    /\ ui_pc = "sent_mode"
    /\ \E clicked \in BOOLEAN :
        IF can_execute_next /\ clicked
        THEN /\ Len(queue) < MaxQueue
             /\ IF receiver_dropped
                THEN /\ ui_pc' = "panicked"
                     /\ UNCHANGED <<queue>>
                ELSE /\ queue' = Append(queue, Msg("ExecuteOne", ""))
                     /\ ui_pc' = "idle"
        ELSE /\ ui_pc' = "idle"
             /\ UNCHANGED <<queue>>
    /\ UNCHANGED <<obs, machine_vars, ui_locked, ui_execution_mode, sched_pc, execution_mode,
                   sched_locked, cycle_msg, cycle_execs, mid_execs>>

NextProtocol ==
    \/ SchedStep
    \/ UiUpdateLock
    \/ UiUpdate
    \/ UiInstructionLock
    \/ UiInstruction
    \/ UiSendChangeMode
    \/ UiSendExecuteOne
    \/ UiPlayRomLock
    \/ UiPlayRomReplace
    \/ UiPlayRomLoadLock
    \/ UiPlayRomLoad
    \/ UiOnExit
    \/ UiJoin

SpecProtocol == InitSched /\ [][NextProtocol]_vars

SpecProtocolFair == SpecProtocol /\ FairSched


(***************************************************************************)
(* Properties                                                              *)
(***************************************************************************)
\* the last operation was an execute_one that fetched an instruction `op`
Executed(op) ==
    /\ last_op = "execute_one"
    /\ can_fetch(prev)
    /\ next_instruction(prev).op = op

\* C1: after any sequence of ROM loads and execute_one calls the program
\* counter is even and within [0, 4094], so that the fetch of ram[pc] and
\* ram[pc + 1] stays inside the memory.
C1_ProgramCounterEvenInRange ==
    /\ machine.program_counter % 2 = 0
    /\ machine.program_counter \in 0..(RAM_LEN - 2)

\* the scheduler thread is inside `machine.lock().execute_one()`
SchedInExecuteOne == sched_pc \in {"exec_msg", "exec_cont"}

\* the UI thread is inside a block that accesses the machine
UiInMachine == ui_pc \in {"update", "ui_instruction", "replace", "load"}

\* C2: execute_one is atomic for the other thread: while the scheduler is
\* between taking the lock for an execute_one and its end, the UI thread is in
\* no access to the machine (key injection, read, replacement, ROM load), and
\* the two threads never hold the machine's lock together.
C2_ExecuteOneAtomic ==
    /\ ~(SchedInExecuteOne /\ UiInMachine)
    /\ ~(sched_locked /\ ui_locked)

\* C2's case: the scheduler is inside execute_one while play_rom, between its two
\* statements, wants the lock
C2_Witness == SchedInExecuteOne /\ sched_locked /\ ui_pc = "play_mid"

\* C3: in step-by-step mode a loop iteration calls execute_one once when it
\* received ExecuteOne and not at all otherwise, and the continuous-mode
\* execute_one is never entered.
C3_StepModeExecutesOnMessageOnly ==
    /\ (sched_pc \in {"sleep", "panicked"} /\ execution_mode = "StepByStep")
        => cycle_execs = (IF cycle_msg = "ExecuteOne" THEN 1 ELSE 0)
    /\ execution_mode = "StepByStep" => sched_pc \notin {"lock_cont", "exec_cont"}

\* C3's case: an iteration in step-by-step mode has run the one instruction of
\* its ExecuteOne message
C3_Witness ==
    /\ sched_pc = "sleep"
    /\ execution_mode = "StepByStep"
    /\ cycle_msg = "ExecuteOne"
    /\ cycle_execs = 1

\* C4: in continuous mode an iteration that completes (and so did not
\* receive Exit) has executed one instruction when the channel was empty or held
\* ChangeMode, and two when it received ExecuteOne.
C4_ContinuousExecutesEveryCycle ==
    (sched_pc = "sleep" /\ execution_mode = "Continuous")
        => /\ cycle_msg /= "Exit"
           /\ cycle_execs = (IF cycle_msg = "ExecuteOne" THEN 2 ELSE 1)

\* C4's case: ExecuteOne was received in continuous mode and the iteration ran
\* two instructions
C4_Witness ==
    /\ sched_pc = "sleep"
    /\ execution_mode = "Continuous"
    /\ cycle_msg = "ExecuteOne"
    /\ cycle_execs = 2

\* C5: once on_exit has sent Exit the scheduler thread eventually ends, so that
\* join returns; and the iteration that receives Exit executes nothing and is
\* the last.
C5_ExitTerminatesLoop ==
    /\ (ui_pc = "join") ~> receiver_dropped
    /\ [](cycle_msg = "Exit" => (sched_pc = "done" /\ cycle_execs = 0))

\* C5's case: the loop left on Exit and on_exit's join has returned
C5_Witness ==
    /\ ui_pc = "exited"
    /\ sched_pc = "done"
    /\ cycle_msg = "Exit"
    /\ last_op = "execute_one"

\* C6: the scheduler holds the machine's lock only inside an execute_one
\* statement; it is not held during the sleep.
C6_NoLockAcrossSleep ==
    /\ sched_pc = "sleep" => ~sched_locked
    /\ sched_locked => SchedInExecuteOne

\* C6's case: after an execute_one the scheduler sleeps and the UI thread holds
\* the lock
C6_Witness ==
    /\ sched_pc = "sleep"
    /\ cycle_execs >= 1
    /\ ui_locked

\* C7: stack_index stays within [0, 100].
C7_StackIndexInRange == machine.stack_index \in 0..STACK_LEN

\* C7's case: calls have filled the stack
C7_Witness ==
    /\ Executed("Subroutine")
    /\ machine.stack_index = STACK_LEN

\* C8: a call executed with the stack full (100 return addresses) is not
\* fatal: execute_one completes, stack_index is within bounds and the program
\* counter is the call's target.
C8_CallOnFullStackNonFatal ==
    (Executed("Subroutine") /\ prev.stack_index = STACK_LEN)
        => /\ ~machine.panic
           /\ machine.stack_index \in 0..STACK_LEN
           /\ machine.program_counter = next_instruction(prev).a

\* C9: a return executed with the stack empty is not fatal: execute_one
\* completes, stack_index is 0 and the program counter is the value of stack
\* slot 0.
C9_ReturnOnEmptyStack ==
    (Executed("Return") /\ prev.stack_index = 0)
        => /\ ~machine.panic
           /\ machine.stack_index = 0
           /\ machine.stack = prev.stack
           /\ machine.program_counter = VecGet(prev.stack, 0)

\* C9's case: a return ran on an empty stack whose slot 0 holds an earlier
\* return address
C9_Witness ==
    /\ Executed("Return")
    /\ prev.stack_index = 0
    /\ VecGet(prev.stack, 0) /= 0

\* C10: calls and returns are LIFO: while no call exceeds the capacity, the
\* used part of the stack is the sequence of the return addresses (address of the
\* call + 2) of the calls not yet returned from, so the depth is 0 once all are
\* matched; and a return with a call to match sets the program counter to the
\* return address of the innermost such call and pops it.
C10_CallReturnLifo ==
    ~machine.panic =>
        /\ machine.stack_index = Len(call_stack)
        /\ \A i \in 1..Len(call_stack) : VecGet(machine.stack, i - 1) = call_stack[i]
        /\ (Executed("Return") /\ prev_call_stack /= <<>>) =>
              /\ machine.program_counter = prev_call_stack[Len(prev_call_stack)]
              /\ call_stack = SubSeq(prev_call_stack, 1, Len(prev_call_stack) - 1)

\* C10's case: the return of the inner of two nested calls
C10_Witness ==
    /\ Executed("Return")
    /\ Len(prev_call_stack) = 2
    /\ prev_call_stack[1] /= prev_call_stack[2]
    /\ machine.stack_index = 1

\* the timers after the arm of the instruction at the program counter of m,
\* before the tick
TimersAfterArm(m) ==
    LET instruction == next_instruction(m)
    IN IF instruction.op = "SetDelayTimer"
       THEN [m.timers EXCEPT !.delay = m.registers[instruction.a]]
       ELSE IF instruction.op = "SetSoundTimer"
       THEN [m.timers EXCEPT !.sound = m.registers[instruction.a]]
       ELSE m.timers

NoKeyPressed(m) == \A k \in 0..(NUM_KEYS - 1) : ~m.key_pressed[k]

\* C11: after every execute_one (that returns), whichever instruction ran, no
\* key is pressed and the timers have been ticked exactly once; a key that a
\* caller presses stays pressed, with the keys pressed before it, until the
\* next execute_one, whose instruction sees it.
C11_KeysClearedAndOneTick ==
    /\ (last_op = "execute_one" /\ ~machine.panic) =>
        /\ NoKeyPressed(machine)
        /\ machine.timers = tick(TimersAfterArm(prev), obs.elapsed_ms)
    /\ (last_op = "press_key") =>
        \E key \in 0..(NUM_KEYS - 1) : machine = [prev EXCEPT !.key_pressed[key] = TRUE]
    /\ (Executed("SkipIfKeyPressed") /\ ~machine.panic) =>
        machine.program_counter = prev.program_counter +
            (IF prev.key_pressed[prev.registers[next_instruction(prev).a]] THEN 4 ELSE 2)

\* a key was pressed, the skip instruction saw it and skipped, a second went
\* by on the clock, and now no key is pressed and the delay timer is 60 lower
C11_Witness ==
    /\ Executed("SkipIfKeyPressed")
    /\ ~machine.panic
    /\ prev.key_pressed[5]
    /\ machine.program_counter = prev.program_counter + 4
    /\ NoKeyPressed(machine)
    /\ obs.elapsed_ms = 1000
    /\ prev.timers.delay = 255
    /\ machine.timers.delay = 195

\* C12: FX0A with no key pressed leaves the program counter, the registers,
\* the index register, the memory, the stack and the framebuffer as they
\* were (the instruction is executed again next); with a key pressed it
\* stores the lowest pressed key in VX and the program counter is 2 further.
C12_GetKeyWaitsOrStoresLowest ==
    (Executed("GetKey") /\ ~machine.panic) =>
        IF NoKeyPressed(prev)
        THEN /\ machine.program_counter = prev.program_counter
             /\ next_instruction(machine) = next_instruction(prev)
             /\ machine.registers = prev.registers
             /\ machine.index_register = prev.index_register
             /\ machine.ram = prev.ram
             /\ machine.stack = prev.stack
             /\ machine.stack_index = prev.stack_index
             /\ machine.display = prev.display
        ELSE /\ \E key \in 0..(NUM_KEYS - 1) :
                 /\ prev.key_pressed[key]
                 /\ \A lower \in 0..(key - 1) : ~prev.key_pressed[lower]
                 /\ machine.registers =
                        [prev.registers EXCEPT ![next_instruction(prev).a] = key]
             /\ machine.program_counter = prev.program_counter + 2

\* keys 4 and 5 were pressed and FX0A stored 4
C12_Witness ==
    /\ Executed("GetKey")
    /\ ~machine.panic
    /\ prev.key_pressed[4]
    /\ prev.key_pressed[5]
    /\ machine.registers[next_instruction(prev).a] = 4
    /\ machine.program_counter = prev.program_counter + 2

\* FX0A was executed with no key pressed and is the next instruction again
C12_WitnessWait ==
    /\ Executed("GetKey")
    /\ NoKeyPressed(prev)
    /\ next_instruction(machine).op = "GetKey"

\* C13: the timers do not drift: however the elapsed time (whole
\* milliseconds, obs.total_ms in all) is split into ticks, with no instruction
\* setting a timer, after the last tick each timer is its first value less
\* floor(60 * T), T in seconds, and not less than 0.
C13_TimersDecayWithoutDrift ==
    LET due == (60 * obs.total_ms) \div 1000
    IN /\ machine.timers.delay = clamp(obs.delay0 - due, 0, 255)
       /\ machine.timers.sound = clamp(obs.sound0 - due, 0, 255)

\* the Display instruction that execute_one fetched from m: its coordinates
\* and the pixels (as indices into the grid, row * width + column) under the
\* 1 bits of its sprite that are in the grid
DrawnX(m) == m.registers[next_instruction(m).a] % DISPLAY_WIDTH

DrawnY(m) == m.registers[next_instruction(m).b] % DISPLAY_HEIGHT

SpriteOnes(m) ==
    {(DrawnY(m) + row) * DISPLAY_WIDTH + (DrawnX(m) + column) :
        <<row, column>> \in
            {rc \in (0..(next_instruction(m).c - 1)) \X (0..7) :
                /\ DrawnY(m) + rc[1] < DISPLAY_HEIGHT
                /\ DrawnX(m) + rc[2] < DISPLAY_WIDTH
                /\ (VecGet(m.ram, m.index_register + rc[1]) \div (2 ^ (7 - rc[2]))) % 2 = 1}}

\* the pixels that differ between two displays
Changed(d1, d2) == (d1.pixels \ d2.pixels) \cup (d2.pixels \ d1.pixels)

\* C14: after DXYN every pixel of the grid under a 1 bit of the sprite is
\* toggled, every other pixel is as it was, and the flag register is 1 iff
\* the draw turned a pixel off, else 0.
C14_DrawTogglesAndFlagsCollision ==
    (Executed("Display") /\ ~machine.panic) =>
        /\ Changed(machine.display, prev.display) = SpriteOnes(prev)
        /\ flag_register(machine) =
               IF SpriteOnes(prev) \cap prev.display.pixels /= {} THEN 1 ELSE 0

\* a draw that turned some pixels off and some on
C14_Witness ==
    /\ Executed("Display")
    /\ ~machine.panic
    /\ SpriteOnes(prev) \cap prev.display.pixels /= {}
    /\ SpriteOnes(prev) \ prev.display.pixels /= {}
    /\ flag_register(machine) = 1
    /\ machine.display.pixels = (prev.display.pixels \ SpriteOnes(prev))
                                    \cup (SpriteOnes(prev) \ prev.display.pixels)

\* C15: DXYN draws from (VX mod 64, VY mod 32); the rows of the sprite at
\* y >= 32 and its columns at x >= 64 are dropped and do not come back at the
\* opposite edge: no pixel outside [x, min(x + 8, 64)) x [y, min(y + N, 32))
\* changes.
C15_DrawStartsModuloAndClips ==
    (Executed("Display") /\ ~machine.panic) =>
        \A p \in Changed(machine.display, prev.display) :
            /\ p % DISPLAY_WIDTH >= DrawnX(prev)
            /\ p % DISPLAY_WIDTH < DrawnX(prev) + 8
            /\ p \div DISPLAY_WIDTH >= DrawnY(prev)
            /\ p \div DISPLAY_WIDTH < DrawnY(prev) + next_instruction(prev).c
            /\ p \in 0..(DISPLAY_WIDTH * DISPLAY_HEIGHT - 1)

\* VX = 126 and VY = 63: the 8 x 3 sprite of 1 bits is drawn from (62, 31),
\* and the two pixels (62, 31) and (63, 31) are all that changes
C15_Witness ==
    /\ Executed("Display")
    /\ ~machine.panic
    /\ prev.registers[next_instruction(prev).a] = 126
    /\ prev.registers[next_instruction(prev).b] = 63
    /\ next_instruction(prev).c = 3
    /\ VecGet(prev.ram, prev.index_register) = 255
    /\ VecGet(prev.ram, prev.index_register + 1) = 255
    /\ Changed(machine.display, prev.display)
           = {31 * DISPLAY_WIDTH + 62, 31 * DISPLAY_WIDTH + 63}

\* the DXYN just executed would draw from the same coordinates, with the same
\* index register and memory, if it were executed again
SameDraw ==
    /\ machine.registers[next_instruction(prev).a] % DISPLAY_WIDTH = DrawnX(prev)
    /\ machine.registers[next_instruction(prev).b] % DISPLAY_HEIGHT = DrawnY(prev)
    /\ machine.index_register = prev.index_register
    /\ machine.ram = prev.ram

\* the same DXYN executed again, on the machine that the first one left
DrawnAgain ==
    execute_instruction(machine, next_instruction(prev),
                        [random |-> 0, elapsed_ms |-> 0, overflow_checks |-> FALSE])

\* C16: drawing is an involution: whatever the framebuffer holds, the same
\* DXYN executed twice in a row, with the same coordinates, index register
\* and sprite bytes, leaves the framebuffer as it was before the first.
C16_DrawTwiceRestores ==
    (Executed("Display") /\ ~machine.panic /\ SameDraw) =>
        DrawnAgain.display = prev.display

\* a sprite drawn over a framebuffer that held part of it, and the same DXYN
\* is the next instruction
C16_Witness ==
    /\ Executed("Display")
    /\ ~machine.panic
    /\ SameDraw
    /\ prev.display.pixels /= {}
    /\ SpriteOnes(prev) \cap prev.display.pixels /= {}
    /\ machine.display /= prev.display
    /\ DrawnAgain.display = prev.display

\* the test's two draws: the same DXYN is the next instruction after the first
C16_WitnessProgram ==
    /\ Executed("Display")
    /\ SameDraw
    /\ next_instruction(machine) = next_instruction(prev)
    /\ machine.display.pixels /= {}
    /\ DrawnAgain.display.pixels = {}

\* C17: the font table is immutable: in every state after the creation of
\* the machine, whatever ROM is loaded and whatever instructions are
\* executed, the memory bytes 0x50..0x9F are the 80 bytes of the font.
C17_FontImmutable ==
    \A i \in 1..Len(FONT) : VecGet(machine.ram, FONT_START_ADDRESS + i - 1) = FONT[i]

\* C18: whatever the index register holds, DXYN, FX33, FX55 and FX65 do not
\* read or write above address 4095: an access at index_register + offset
\* past the end of the memory is bounds-checked and execute_one completes.
C18_IndexedAccessCompletes ==
    (\E op \in {"Display", "ConvertToDecimal", "RegistersToMemory", "MemoryToRegisters"} :
        Executed(op)) =>
            /\ ~machine.panic
            /\ DOMAIN machine.ram \subseteq 0..(RAM_LEN - 1)

\* the bytes of the memory that load_rom_from_bytes writes for obs.data
Loaded == ROM_START_ADDRESS..(ROM_START_ADDRESS + Len(obs.data) - 1)

\* C19: after load_rom_from_bytes(data) with at most 3584 bytes of data,
\* memory[0x200 + i] = data[i] for every i, the program counter is 0x200, and
\* every other byte of the memory (the font too), the registers, the stack
\* and the framebuffer are as they were; load_rom_from_instrhex stores each
\* 16-bit word with its high byte first.
C19_LoadCopiesRomAt0x200 ==
    /\ (last_op = "load_rom_from_bytes" /\ Len(obs.data) <= RAM_LEN - ROM_START_ADDRESS) =>
        /\ ~machine.panic
        /\ \A i \in 1..Len(obs.data) :
               VecGet(machine.ram, ROM_START_ADDRESS + i - 1) = obs.data[i]
        /\ machine.program_counter = ROM_START_ADDRESS
        /\ \A addr \in (0..(RAM_LEN - 1)) \ Loaded :
               VecGet(machine.ram, addr) = VecGet(prev.ram, addr)
        /\ machine.registers = prev.registers
        /\ machine.index_register = prev.index_register
        /\ machine.stack = prev.stack
        /\ machine.stack_index = prev.stack_index
        /\ machine.display = prev.display
    /\ (last_op = "from_instrhex") =>
        /\ ~machine.panic
        /\ machine.program_counter = ROM_START_ADDRESS
        /\ \A i \in 1..Len(obs.data) :
               /\ VecGet(machine.ram, ROM_START_ADDRESS + 2 * (i - 1)) = obs.data[i] \div 256
               /\ VecGet(machine.ram, ROM_START_ADDRESS + 2 * (i - 1) + 1) = obs.data[i] % 256

\* 3584 bytes were loaded into a machine that had called a subroutine and set
\* a register: the last byte of the memory holds the last byte of the data,
\* the first instruction of the old program is overwritten, and the register
\* and the stack are as they were
C19_Witness ==
    /\ last_op = "load_rom_from_bytes"
    /\ Len(obs.data) = RAM_LEN - ROM_START_ADDRESS
    /\ VecGet(machine.ram, RAM_LEN - 1) = 1
    /\ VecGet(prev.ram, ROM_START_ADDRESS) /= VecGet(machine.ram, ROM_START_ADDRESS)
    /\ prev.program_counter /= ROM_START_ADDRESS
    /\ machine.program_counter = ROM_START_ADDRESS
    /\ prev.stack_index = 1
    /\ machine.stack_index = 1
    /\ machine.registers[0] = 2

\* C20: loading a ROM of more than 3584 bytes does not fail: the bytes that
\* fit are stored from 0x200 to 0xFFF, the bytes past the end of the memory
\* are dropped, and the program counter is 0x200.
C20_LongRomTruncated ==
    (last_op = "load_rom_from_bytes" /\ Len(obs.data) > RAM_LEN - ROM_START_ADDRESS) =>
        /\ ~machine.panic
        /\ \A addr \in ROM_START_ADDRESS..(RAM_LEN - 1) :
               VecGet(machine.ram, addr) = obs.data[addr - ROM_START_ADDRESS + 1]
        /\ machine.program_counter = ROM_START_ADDRESS

\* C21: when the ROM file cannot be opened or read, load_rom_from_file
\* returns Err and leaves the memory and the program counter as they were, and
\* the failure ends neither play_rom, which asked for the load, nor the
\* scheduler loop.
C21_LoadFailureRecoverable ==
    (last_op = "load_rom_from_file" /\ obs.result = "Err") =>
        /\ machine.ram = prev.ram
        /\ machine.program_counter = prev.program_counter
        /\ ui_pc /= "panicked"
        /\ process_alive

\* C22: a word that decodes to Unknown is a no-op apart from what every
\* instruction does: the program counter advances by 2, the keys are cleared
\* and the timers tick; memory, registers, index register, stack and
\* framebuffer are unchanged, and the machine goes on with the next
\* instruction.
C22_UnknownIsNoOp ==
    Executed("Unknown") =>
        /\ ~machine.panic
        /\ machine.program_counter = prev.program_counter + 2
        /\ NoKeyPressed(machine)
        /\ machine.timers = tick(prev.timers, obs.elapsed_ms)
        /\ machine.ram = prev.ram
        /\ machine.registers = prev.registers
        /\ machine.index_register = prev.index_register
        /\ machine.stack = prev.stack
        /\ machine.stack_index = prev.stack_index
        /\ machine.display = prev.display
        /\ can_fetch(machine)

\* C22's case: the unknown word 0123 was executed inside a subroutine, with
\* pixels on and a key pressed, and the instruction
\* after it is 7101
C22_Witness ==
    /\ Executed("Unknown")
    /\ next_instruction(prev).a = 291
    /\ prev.stack_index = 1
    /\ prev.display.pixels /= {}
    /\ \E k \in 0..(NUM_KEYS - 1) : prev.key_pressed[k]
    /\ next_instruction(machine).op = "AddValToReg"

\* the instruction the dispatch table gives for the word of nibbles c, x, y, z
\* (category, vx, vy, n) fetched at `location`
Dispatched(c, x, y, z, location) ==
    LET word == 4096 * c + 256 * x + 16 * y + z
        imm == 16 * y + z
        addr == 256 * x + 16 * y + z
        unknown == Instr("Unknown", word, location, 0)
        alu == <<"Set", "Or", "And", "Xor", "Add", "SubtractXY", "ShiftRight", "SubtractYX">>
    IN CASE c = 0 -> IF word = 0 THEN Instr("Zero", 0, 0, 0)
                     ELSE IF word = 224 THEN Instr("ClearScreen", 0, 0, 0)
                     ELSE IF word = 238 THEN Instr("Return", 0, 0, 0)
                     ELSE unknown
         [] c = 1 -> Instr("Jump", addr, 0, 0)
         [] c = 2 -> Instr("Subroutine", addr, 0, 0)
         [] c = 3 -> Instr("SkipIfEqualRegVal", x, imm, 0)
         [] c = 4 -> Instr("SkipIfNotEqualRegVal", x, imm, 0)
         [] c = 5 -> Instr("SkipIfEqualRegReg", x, y, 0)
         [] c = 6 -> Instr("SetRegToVal", x, imm, 0)
         [] c = 7 -> Instr("AddValToReg", x, imm, 0)
         [] c = 8 -> IF z \in 0..7 THEN Instr(alu[z + 1], x, y, 0)
                     ELSE IF z = 14 THEN Instr("ShiftLeft", x, y, 0)
                     ELSE unknown
         [] c = 9 -> Instr("SkipIfNotEqualRegReg", x, y, 0)
         [] c = 10 -> Instr("SetIndexRegister", addr, 0, 0)
         [] c = 11 -> Instr("JumpWithOffset", addr, 0, 0)
         [] c = 12 -> Instr("Random", x, imm, 0)
         [] c = 13 -> Instr("Display", x, y, z)
         [] c = 14 -> IF imm = 158 THEN Instr("SkipIfKeyPressed", x, 0, 0)
                      ELSE IF imm = 161 THEN Instr("SkipIfKeyNotPressed", x, 0, 0)
                      ELSE unknown
         [] c = 15 -> IF imm = 7 THEN Instr("ReadDelayTimer", x, 0, 0)
                      ELSE IF imm = 21 THEN Instr("SetDelayTimer", x, 0, 0)
                      ELSE IF imm = 24 THEN Instr("SetSoundTimer", x, 0, 0)
                      ELSE IF imm = 30 THEN Instr("AddToIndex", x, 0, 0)
                      ELSE IF imm = 10 THEN Instr("GetKey", x, 0, 0)
                      ELSE IF imm = 41 THEN Instr("FontCharacter", x, 0, 0)
                      ELSE IF imm = 51 THEN Instr("ConvertToDecimal", x, 0, 0)
                      ELSE IF imm = 85 THEN Instr("RegistersToMemory", x, 0, 0)
                      ELSE IF imm = 101 THEN Instr("MemoryToRegisters", x, 0, 0)
                      ELSE unknown

\* C23: decode is total and follows the dispatch table: every 16-bit word
\* decodes to the one instruction of its row, with vx = bits 8-11,
\* vy = bits 4-7, n = bits 0-3, nn = bits 0-7 and nnn = bits 0-11 as operands;
\* category 0 other than 0000, 00E0, 00EE, category 8 with n outside 0..7, E,
\* and categories E and F with an unlisted nn give Unknown with the raw word.
C23_DecodeFollowsTable ==
    obs.nibbles /= <<>> =>
        /\ can_fetch(machine)
        /\ next_instruction(machine) =
               Dispatched(obs.nibbles[1], obs.nibbles[2], obs.nibbles[3], obs.nibbles[4],
                          ROM_START_ADDRESS)

\* C23's case: 8128 (category 8, n = 8) was decoded, to Unknown with the word
C23_Witness ==
    /\ obs.nibbles = <<8, 1, 2, 8>>
    /\ next_instruction(machine) = Instr("Unknown", 33064, ROM_START_ADDRESS, 0)

\* the operands of the instruction the last execute_one ran, and the values
\* the registers they name held before it
X == next_instruction(prev).a

Y == next_instruction(prev).b

OldVX == prev.registers[X]

OldVY == prev.registers[Y]

\* C24: for all X and Y in 0..15 and all register values, after 8XY4 the flag
\* register is 1 iff old VX + old VY > 255 and 0 otherwise, and VX holds
\* (old VX + old VY) mod 256.
C24_AddSetsCarry ==
    Executed("Add") =>
        /\ ~machine.panic
        /\ flag_register(machine) = (IF OldVX + OldVY > 255 THEN 1 ELSE 0)
        /\ machine.registers[X] = (OldVX + OldVY) % 256

\* C25: for all X and Y, 8XY5 stores (VX - VY) mod 256 in VX and 8XY7 stores
\* (VY - VX) mod 256 in VX, and in both the flag register is 1 iff
\* minuend >= subtrahend (equal operands: flag 1, result 0), else 0.
C25_SubtractSetsNoBorrow ==
    /\ Executed("SubtractXY") =>
        /\ ~machine.panic
        /\ machine.registers[X] = (OldVX - OldVY + 256) % 256
        /\ flag_register(machine) = (IF OldVX >= OldVY THEN 1 ELSE 0)
    /\ Executed("SubtractYX") =>
        /\ ~machine.panic
        /\ machine.registers[X] = (OldVY - OldVX + 256) % 256
        /\ flag_register(machine) = (IF OldVY >= OldVX THEN 1 ELSE 0)

\* C26: 8XY6 sets the flag register to the low bit of old VX and VX to
\* old VX >> 1; 8XYE sets the flag register to the high bit of old VX and VX
\* to (old VX << 1) mod 256; VY has no part in either.
C26_ShiftSetsFlagToBitShiftedOut ==
    /\ Executed("ShiftRight") =>
        /\ ~machine.panic
        /\ flag_register(machine) = OldVX % 2
        /\ machine.registers[X] = OldVX \div 2
    /\ Executed("ShiftLeft") =>
        /\ ~machine.panic
        /\ flag_register(machine) = OldVX \div 128
        /\ machine.registers[X] = (OldVX * 2) % 256

\* C27: 7XNN sets VX to (VX + NN) mod 256 and leaves every other register,
\* the flag register too, as it was: no carry is recorded when the sum
\* exceeds 255.
C27_AddValWrapsWithoutFlag ==
    Executed("AddValToReg") =>
        /\ ~machine.panic
        /\ machine.registers[X] = (OldVX + next_instruction(prev).b) % 256
        /\ \A r \in 0..(NUM_REGISTERS - 1) :
               r /= X => machine.registers[r] = prev.registers[r]

\* C27's case: 128 was added to V0 = 255, and the flag register is still 0
C27_Witness ==
    /\ Executed("AddValToReg")
    /\ X = 0
    /\ OldVX = 255
    /\ next_instruction(prev).b = 128
    /\ machine.registers[0] = 127
    /\ flag_register(prev) = 0
    /\ flag_register(machine) = 0

\* C28: 3XNN, 4XNN, 5XY0 and 9XY0 leave the program counter at old pc + 4 iff
\* their comparison holds (VX = NN, VX /= NN, VX = VY, VX /= VY) and at
\* old pc + 2 otherwise, and change no register.
C28_SkipIffComparisonHolds ==
    LET skipped(holds) ==
            /\ ~machine.panic
            /\ machine.program_counter = prev.program_counter + (IF holds THEN 4 ELSE 2)
            /\ machine.registers = prev.registers
    IN /\ Executed("SkipIfEqualRegVal") => skipped(OldVX = Y)
       /\ Executed("SkipIfNotEqualRegVal") => skipped(OldVX /= Y)
       /\ Executed("SkipIfEqualRegReg") => skipped(OldVX = OldVY)
       /\ Executed("SkipIfNotEqualRegReg") => skipped(OldVX /= OldVY)

\* C28's case: 9XY0 with VX = 128 and VY = 255 skipped
C28_Witness ==
    /\ Executed("SkipIfNotEqualRegReg")
    /\ OldVX = 128
    /\ OldVY = 255
    /\ machine.program_counter = prev.program_counter + 4

\* C29: FX1E sets the index register to old index + VX, sets the flag
\* register to 1 when the new index is greater than 0x1000 and otherwise
\* leaves the flag register as it was (it never clears it).
C29_AddToIndexSetsFlagOnly ==
    (Executed("AddToIndex") /\ prev.index_register + OldVX <= 65535) =>
        /\ ~machine.panic
        /\ machine.index_register = prev.index_register + OldVX
        /\ flag_register(machine) =
               (IF machine.index_register > 4096 THEN 1 ELSE flag_register(prev))

\* C29's case: the flag register was 1 and the new index is 5
C29_Witness ==
    /\ Executed("AddToIndex")
    /\ flag_register(prev) = 1
    /\ machine.index_register = 5
    /\ flag_register(machine) = 1

\* C30: no arithmetic of execute_one traps on overflow: FX1E with
\* index register + VX above 0xFFFF wraps the index register modulo 2^16 and
\* execute_one completes.
C30_AddToIndexWraps ==
    (Executed("AddToIndex") /\ prev.index_register + OldVX > 65535) =>
        /\ ~machine.panic
        /\ machine.index_register = (prev.index_register + OldVX) % 65536

\* the 4 bytes of pixel p (p = row * 64 + column) in the packed colour buffer
rgba_of(d, p) == [byte \in 0..3 |-> VecGet(d.rgba, 4 * p + byte)]

\* C31: in every reachable state the packed colour buffer agrees with the
\* pixel grid: the 4 bytes of each of the 64x32 pixels are (255,255,255,255)
\* when the pixel is on and the opaque black (0,0,0,255) when it is off.
C31_RgbaOpaque ==
    \A p \in 0..(DISPLAY_WIDTH * DISPLAY_HEIGHT - 1) :
        rgba_of(machine.display, p) =
            (IF p \in machine.display.pixels
             THEN [byte \in 0..3 |-> 255]
             ELSE [byte \in 0..3 |-> IF byte = 3 THEN 255 ELSE 0])

\* C32: FX55 writes V0..VX (X + 1 registers) to the memory at I..I+X and
\* changes no other memory byte; FX65 loads V0..VX from the memory at I..I+X
\* and changes no register above X; both leave the index register unchanged.
C32_StoreLoadInclusive ==
    LET I == prev.index_register
    IN /\ (Executed("RegistersToMemory") /\ ~machine.panic) =>
            /\ \A addr \in 0..(RAM_LEN - 1) :
                   VecGet(machine.ram, addr) =
                       (IF addr \in I..(I + X) THEN prev.registers[addr - I]
                        ELSE VecGet(prev.ram, addr))
            /\ machine.index_register = I
       /\ (Executed("MemoryToRegisters") /\ ~machine.panic) =>
            /\ \A r \in 0..(NUM_REGISTERS - 1) :
                   machine.registers[r] =
                       (IF r <= X THEN VecGet(prev.ram, I + r) ELSE prev.registers[r])
            /\ machine.index_register = I

\* C32's case: F255 has stored V0, V1, V2 at 0x300 and not VF, and F265 has
\* loaded the three bytes 60, 11, 61 at 0x200 into V0, V1, V2 and left VF
C32_Witness ==
    /\ Executed("MemoryToRegisters")
    /\ X = 2
    /\ prev.index_register = 512
    /\ machine.registers[0] = 96 /\ machine.registers[1] = 17 /\ machine.registers[2] = 97
    /\ machine.registers[15] = 68
    /\ VecGet(machine.ram, 768) = 17 /\ VecGet(machine.ram, 769) = 34
    /\ VecGet(machine.ram, 770) = 51 /\ VecGet(machine.ram, 771) = 0
    /\ machine.index_register = 512

\* C33: right after the execute_one that runs FX15 the delay timer equals VX
\* and the sound timer is as before; after FX18 the sound timer equals VX and
\* the delay timer is as before; after FX07, VX is the delay timer's value
\* from before the instruction; no other instruction changes a timer other
\* than by the tick at the end of the instruction.
C33_TimerInstructions ==
    (last_op = "execute_one" /\ can_fetch(prev) /\ ~machine.panic) =>
        /\ Executed("SetDelayTimer") =>
            /\ machine.timers.delay = OldVX
            /\ machine.timers.sound = prev.timers.sound
        /\ Executed("SetSoundTimer") =>
            /\ machine.timers.sound = OldVX
            /\ machine.timers.delay = prev.timers.delay
        /\ Executed("ReadDelayTimer") => machine.registers[X] = prev.timers.delay
        /\ next_instruction(prev).op \notin {"SetDelayTimer", "SetSoundTimer"} =>
            machine.timers = tick(prev.timers, obs.elapsed_ms)

\* C34: FX29 sets the index register to 0x50 + 4 * (VX & 0x0F), for every
\* value of VX, and changes no register and no memory byte.
C34_FontCharacterAddress ==
    Executed("FontCharacter") =>
        /\ ~machine.panic
        /\ machine.index_register = 80 + 4 * BitAnd(OldVX, 15)
        /\ machine.registers = prev.registers
        /\ machine.ram = prev.ram

\* C34's case: FX29 with VX = 0xAB has set the index register to 0x50 + 4 * 0xB
C34_Witness ==
    /\ Executed("FontCharacter")
    /\ OldVX = 171
    /\ machine.index_register = 124
    /\ machine.registers[X] = 171

\* C36: for every digit d, after FX29 with VX & 0x0F = d the index register
\* is the address 0x50 + 5 * d of the first of the 5 font bytes of the
\* glyph of d.
C36_FontCharacterPointsAtGlyph ==
    Executed("FontCharacter") =>
        LET d == BitAnd(OldVX, 15)
        IN /\ machine.index_register = 80 + 5 * d
           /\ \A k \in 0..4 :
                  VecGet(machine.ram, machine.index_register + k) = FONT[5 * d + k + 1]

\* C39: EX9E and EXA1 complete without a fault for every value of VX in
\* 0..255: a register value above 15 causes no access outside the 16 keys.
C39_KeySkipsNeverFault ==
    (Executed("SkipIfKeyPressed") \/ Executed("SkipIfKeyNotPressed")) => ~machine.panic

\* C35: play_rom is atomic with respect to the scheduler: no instruction is
\* executed between the replacement of the machine by a new one and the load
\* of the ROM, so that when play_rom returns the machine is a newly created
\* machine with the ROM at 0x200 and the program counter at 0x200.
C35_PlayRomAtomic ==
    /\ ui_pc \in {"play_mid", "load"} => mid_execs = 0
    /\ \A file \in RomFiles \ {MissingFile} :
           (last_op = "load_rom_from_file" /\ machine = load_rom_from_file(prev, file)[1]) =>
               machine = load_rom_from_file(MachineDefault, file)[1]

\* C40: the interval the scheduler sleeps in each cycle is, in nanoseconds,
\* 1,000,000,000 / TARGET_INSTRUCTIONS_PER_SECOND (one second divided by the
\* target rate of 700), and the 32-bit computation of the nanoseconds does
\* not saturate.
C40_SleepIsSecondOverRate ==
    sched_pc = "sleep" =>
        /\ sleep_duration.secs = 0
        /\ sleep_duration.nanos = NANOS_PER_SEC \div TARGET_INSTRUCTIONS_PER_SECOND
        /\ as_u32(TEN_E9) = TEN_E9

\* C37: when the UI sends what ui_instruction sends (in each frame ChangeMode
\* with the mode selected in the UI, then ExecuteOne only when that mode is
\* step-by-step), the scheduler receives no ExecuteOne while its mode is
\* continuous, so that no cycle of the scheduler executes more than one
\* instruction.
C37_NoExecuteOneInContinuous ==
    /\ (queue /= <<>> /\ Head(queue).type = "ExecuteOne") => execution_mode = "StepByStep"
    /\ cycle_msg = "ExecuteOne" => execution_mode = "StepByStep"
    /\ cycle_execs <= 1

\* C37's case: the scheduler, in step-by-step mode, has executed the
\* instruction of an ExecuteOne while the UI has gone on to continuous mode,
\* whose ChangeMode waits in the channel
C37_Witness ==
    /\ cycle_msg = "ExecuteOne"
    /\ cycle_execs = 1
    /\ execution_mode = "StepByStep"
    /\ ui_execution_mode = "Continuous"
    /\ queue = <<Msg("ChangeMode", "Continuous")>>

\* C38: the control messages are received in the order they were sent, at
\* most one in a cycle of the scheduler; and if the mode selected in the UI
\* stops changing and the scheduler keeps cycling, the scheduler's mode is
\* eventually the mode selected in the UI, and stays so.
C38_InOrderAndModeConverges ==
    /\ [][/\ \/ queue' = queue
             \/ queue /= <<>> /\ queue' = Tail(queue)
             \/ Len(queue') = Len(queue) + 1 /\ SubSeq(queue', 1, Len(queue)) = queue
          /\ Len(queue') < Len(queue) =>
                /\ sched_pc = "recv"
                /\ sched_pc' /= "recv"
                /\ cycle_msg' = Head(queue).type
          /\ (sched_pc /= "recv" /\ sched_pc' = "recv") => sched_pc = "sleep"]_vars
    /\ \A mode \in ExecutionModes :
           (<>[](ui_execution_mode = mode) /\ []<><<SchedSleep>>_vars) =>
               <>[](execution_mode = mode)

\* C38's case: the scheduler has received the ChangeMode of the UI's switch to
\* continuous mode after an instruction was executed, the channel is empty,
\* and the scheduler is in the mode selected in the UI, about to execute
C38_Witness ==
    /\ cycle_msg = "ChangeMode"
    /\ execution_mode = "Continuous"
    /\ ui_execution_mode = "Continuous"
    /\ queue = <<>>
    /\ last_op = "execute_one"
    /\ sched_pc = "exec_cont"

====
